---- MODULE Spec2Model ----
(***************************************************************************)
(* STM8 serial flasher: the bootloader protocol engine (bootloader.c) on   *)
(* top of the POSIX branch of the serial transport (serial_comm.c).        *)
(*                                                                         *)
(* The host process runs one bsl_* function at a time.  Every send_port    *)
(* and every receive_port call of a function is one step; the code that    *)
(* follows a receive up to the next send (checks, copies, loop control,    *)
(* the return into a caller) belongs to the receive step.  Exit(1, ..)     *)
(* ends the process: pc = "exit" with the message of the fprintf in err.   *)
(*                                                                         *)
(* Bytes on the wire are 0..255.  Tx, Rx and buf are C arrays of plain     *)
(* char, which is signed in the gcc build of the Makefile: -128..127.      *)
(***************************************************************************)
EXTENDS Integers, Sequences, FiniteSets, TLC

(***************************************************************************)
(* Bounds of the model.                                                    *)
(***************************************************************************)
\* transfer lengths 1..MaxSmall, and MaxBlocks multiples of 128 with their
\* neighbours (one below, one above)
MaxSmall == 3
MaxBlocks == 2
\* bytes that are neither ACK nor NACK which the line may deliver in one run
MaxNoise == 1
\* engine calls of one run under SpecRW
MaxCalls == 2

(***************************************************************************)
(* Protocol constants (bootloader.h; values of the table in spec 4.3).     *)
(***************************************************************************)
SYNCH == 127
ACK == 121
NACK == 31
GET == 0
READ == 17
GO == 33
WRITE == 49
ERASE == 67

(***************************************************************************)
(* C arithmetic.                                                           *)
(***************************************************************************)
Min(a, b) == IF a < b THEN a ELSE b

\* A uint32_t is kept as its two 16-bit halves [h, l] (the checker's integers
\* end at 2^31 - 1); its arithmetic wraps modulo 2^32.
U32Of(n) == [h |-> n \div 65536, l |-> n % 65536]
U32Add(x, y) ==
  [h |-> (x.h + y.h + ((x.l + y.l) \div 65536)) % 65536, l |-> (x.l + y.l) % 65536]
U32Sub(x, y) ==
  [h |-> (x.h - y.h - (IF x.l < y.l THEN 1 ELSE 0)) % 65536, l |-> (x.l - y.l) % 65536]
U32Lt(x, y) == (x.h < y.h) \/ (x.h = y.h /\ x.l < y.l)
\* the value of a uint32_t below 2^31
U32Nat(x) == x.h * 65536 + x.l

\* conversion of an integer to (signed) char, and the byte a char is on the wire
ToChar(v) == LET b == v % 256 IN IF b >= 128 THEN b - 256 ELSE b
ToByte(c) == c % 256

\* bit k (of weight w = 2^k) of the XOR of all bytes of s: the parity of
\* the number of bytes that have the bit set
XorBit(s, w) == Cardinality({i \in 1..Len(s) : (s[i] \div w) % 2 = 1}) % 2

\* XOR of all bytes of a frame
XorAll(s) ==
  XorBit(s, 1) + 2 * XorBit(s, 2) + 4 * XorBit(s, 4) + 8 * XorBit(s, 8)
  + 16 * XorBit(s, 16) + 32 * XorBit(s, 32) + 64 * XorBit(s, 64)
  + 128 * XorBit(s, 128)

\* bitwise XOR of two bytes
Xor(a, b) == XorAll(<<a, b>>)

\* c ^ d on two chars (promoted to int), stored into a char again
CXor(c, d) == ToChar(Xor(ToByte(c), ToByte(d)))

\* the bytes write() puts on the wire for a char array, and back
Bytes(s) == [i \in 1..Len(s) |-> ToByte(s[i])]
Chars(s) == [i \in 1..Len(s) |-> ToChar(s[i])]

\* C's Rx[i] of a receive buffer that was zeroed and then filled in its
\* first Len(R) places
RxAt(R, i) == IF i + 1 <= Len(R) THEN R[i + 1] ELSE 0

(***************************************************************************)
(* State.                                                                  *)
(***************************************************************************)
VARIABLES
  pc,         \* "idle", "send", "recv", "done" (returned), "exit" (Exit(1,..))
  fn,         \* the bsl_* function that is running
  phase,      \* the exchange of fn that is running
  loc,        \* fn's arguments and locals
  Tx,         \* the frame built for the next send_port (chars)
  lenRx,      \* bytes the next receive_port asks for
  Rx,         \* receive buffer: the places written since it was zeroed
  ret,        \* return value of the function that returned
  err,        \* message of the Exit
  buf,        \* the caller's data buffer (chars)
  flashsize,  \* the caller's *flashsize
  vers,       \* the caller's *vers
  ptrPort,    \* the port handle (file descriptor; 0 = not open)
  termios,    \* the terminal settings of the port
  inbuf,      \* bytes the port has received and no read has taken yet
  tgt,        \* the target's bootloader state
  mem,        \* target memory: the bytes written so far (over MemFill)
  noise,      \* stray bytes the line may still deliver
  line,       \* "faithful": the target answers every frame as the protocol
              \* says; "arbitrary": replies may also be lost, refused, cut
  wire,       \* history: the frames sent and the replies received by fn
  probes,     \* history: the bsl_memCheck calls of this bsl_getInfo
  timeout0,   \* history: the port's read timeout when fn was called
  mem0,       \* history: target memory when fn was called
  hist,       \* history: the call that returned before this one
  calls,      \* calls the caller has made
  modem,      \* the modem control lines of the port that are set
  os          \* history: the calls on OS descriptors that the transport
              \* functions made when the caller called them itself

hostVars == <<pc, fn, phase, loc, Tx, lenRx, Rx, ret, err>>
callerVars == <<buf, flashsize, vers>>
portVars == <<ptrPort, termios, inbuf>>
envVars == <<tgt, mem, noise, line>>
histVars == <<wire, probes, timeout0, mem0, hist, calls>>
osVars == <<modem, os>>
vars == <<hostVars, callerVars, portVars, envVars, histVars, osVars>>

(***************************************************************************)
(* Inputs of the model.                                                    *)
(***************************************************************************)
\* start addresses: aligned and not aligned modulo 256, and the last
\* address of the 32-bit range
Starts == {U32Of(32768), U32Of(33023), [h |-> 65535, l |-> 65535]}

Lens ==
  (1..MaxSmall) \cup {m * 128 + e : m \in 1..MaxBlocks, e \in {0 - 1, 0, 1}}

\* data to upload: 12 34 57 79 9C BE ..
DataByte(i) == (18 + 34 * (i - 1) + ((i - 1) \div 2)) % 256
WriteData(n) == [i \in 1..n |-> ToChar(DataByte(i))]

CheckAddrs == {40959, 294911}
EraseAddrs == {32768, 35840, 33791, 294911, 294912, 31744, 32767}
JumpAddrs == {32768, 160}

\* read timeouts (ms) the port may have been opened with
InitTimeouts == {1000, 2000}

\* bytes that are neither ACK nor NACK
Garbage == {0, 249}

NotWritten == 0 - 1

(***************************************************************************)
(* The target: a bootloader that follows the protocol of spec 4.3 over a   *)
(* memory that keeps what WRITE delivers and returns it on READ.           *)
(***************************************************************************)
\* memory content before any write: AA BB CC .. from 0x8000 on
MemFill(a) == (42 + 17 * a + (a \div 256)) % 256
MemAt(m, a) == IF a \in DOMAIN m THEN m[a] ELSE MemFill(a)

\* devices: flash size in kB and bootloader version
TargetProfiles ==
  { [flash |-> 8, ver |-> 16], [flash |-> 32, ver |-> 18],
    [flash |-> 128, ver |-> 34], [flash |-> 256, ver |-> 129] }

\* the top address of the flash, which starts at 0x8000
FlashTop(kb) == 32768 + kb * 1024 - 1

\* the address of an address frame whose first byte is 0
AddrOf(f) == f[2] * 65536 + f[3] * 256 + f[4]

GetReply(t) == <<ACK, 6, t.ver, GET, READ, GO, WRITE, ERASE, ACK>>

Refuse(t, m) == [reply |-> <<NACK>>, tgt |-> [t EXCEPT !.st = "idle"], mem |-> m]

MemStore(m, a, data) ==
  LET W == a..(a + Len(data) - 1) IN
  [x \in (DOMAIN m) \cup W |-> IF x \in W THEN data[x - a + 1] ELSE m[x]]

MemErase(m, sectors) ==
  LET W == UNION {(32768 + 1024 * s)..(32768 + 1024 * s + 1023) : s \in sectors} IN
  [x \in (DOMAIN m) \cup W |-> IF x \in W THEN 0 ELSE m[x]]

\* the target's answer to frame f in state t: [reply, tgt, mem]
TargetStep(t, m, f) ==
  IF t.st = "gone" THEN [reply |-> <<>>, tgt |-> t, mem |-> m]
  ELSE IF t.st = "idle" /\ f = <<SYNCH>> THEN
    [reply |-> <<IF t.synced THEN NACK ELSE ACK>>,
     tgt |-> [t EXCEPT !.synced = TRUE], mem |-> m]
  ELSE IF t.st = "idle" THEN
    IF Len(f) = 2 /\ f[2] = Xor(f[1], 255) /\ f[1] \in {GET, READ, GO, WRITE, ERASE}
    THEN IF f[1] = GET
         THEN [reply |-> GetReply(t), tgt |-> t, mem |-> m]
         ELSE [reply |-> <<ACK>>,
               tgt |-> [t EXCEPT !.st = IF f[1] = ERASE THEN "sector" ELSE "addr",
                                 !.cmd = f[1]],
               mem |-> m]
    ELSE Refuse(t, m)
  ELSE IF t.st = "addr" THEN
    IF Len(f) = 5 /\ f[5] = XorAll(SubSeq(f, 1, 4)) /\ f[1] = 0
       /\ AddrOf(f) <= FlashTop(t.flash)
    THEN [reply |-> <<ACK>>,
          tgt |-> [t EXCEPT !.st = IF t.cmd = READ THEN "len"
                                   ELSE IF t.cmd = WRITE THEN "data" ELSE "gone",
                            !.addr = AddrOf(f)],
          mem |-> m]
    ELSE Refuse(t, m)
  ELSE IF t.st = "len" THEN
    IF Len(f) = 2 /\ f[2] = Xor(f[1], 255)
    THEN [reply |-> <<ACK>> \o [i \in 1..(f[1] + 1) |-> MemAt(m, t.addr + i - 1)],
          tgt |-> [t EXCEPT !.st = "idle"], mem |-> m]
    ELSE Refuse(t, m)
  ELSE IF t.st = "data" THEN
    IF Len(f) >= 3 /\ Len(f) = f[1] + 3 /\ f[1] <= 127 /\ XorAll(f) = 0
    THEN [reply |-> <<ACK>>, tgt |-> [t EXCEPT !.st = "idle"],
          mem |-> MemStore(m, t.addr, SubSeq(f, 2, Len(f) - 1))]
    ELSE Refuse(t, m)
  ELSE \* "sector"
    IF Len(f) >= 3 /\ Len(f) = f[1] + 3 /\ XorAll(f) = 0
    THEN [reply |-> <<ACK>>, tgt |-> [t EXCEPT !.st = "idle"],
          mem |-> MemErase(m, {f[i] : i \in 2..(Len(f) - 1)})]
    ELSE Refuse(t, m)

\* the last frame the host sent
LastTx == wire[Len(wire)].b

\* what may arrive at the port after the last frame: [reply, tgt, mem, noise]
Arrivals ==
  LET h == TargetStep(tgt, mem, LastTx)
      off(r, n) == [reply |-> r, tgt |-> [tgt EXCEPT !.st = "idle"],
                    mem |-> mem, noise |-> n]
      \* the reply with one of its first nine bytes replaced by a stray byte
      hit(i, g) == [reply |-> [h.reply EXCEPT ![i] = g], tgt |-> h.tgt,
                    mem |-> h.mem, noise |-> noise - 1]
  IN {[reply |-> h.reply, tgt |-> h.tgt, mem |-> h.mem, noise |-> noise]}
     \cup
     (IF line = "faithful" THEN {}
      ELSE {off(<<>>, noise), off(<<NACK>>, noise)}
           \cup (IF noise > 0 THEN {off(<<g>>, noise - 1) : g \in Garbage} ELSE {})
           \cup (IF Len(h.reply) > 1
                 THEN {off(SubSeq(h.reply, 1, Len(h.reply) - 1), noise),
                       off(<<NACK>> \o Tail(h.reply), noise)}
                 ELSE {})
           \cup (IF Len(h.reply) > 1 /\ noise > 0
                 THEN {hit(i, g) : i \in 1..Min(Len(h.reply), 9), g \in Garbage}
                 ELSE {}))

(***************************************************************************)
(* Serial transport (POSIX branch).                                        *)
(***************************************************************************)
\* write(): [ret: the count send_port returns, sent: the bytes that left].
\* A failed write returns -1; the callers keep the count in an int.
send_port(T) ==
  {[ret |-> Len(T), sent |-> Len(T)]}
  \cup (IF line = "faithful" THEN {}
        ELSE {[ret |-> Len(T) - 1, sent |-> Len(T) - 1],
              [ret |-> 0 - 1, sent |-> 0]})

\* the select/read loop: takes bytes until lenRx are stored or a wait
\* expires with nothing to read; `arrived` is what comes in meanwhile
receive_port(n, R, arrived) ==
  LET stream == inbuf \o arrived
      k == Min(n, Len(stream))
  IN [len |-> k,
      got |-> SubSeq(stream, 1, k),
      Rx |-> Chars(SubSeq(stream, 1, k)) \o SubSeq(R, k + 1, Len(R)),
      inbuf |-> SubSeq(stream, k + 1, Len(stream))]

\* tcflush(fpCom, TCIOFLUSH)
flush_port == <<>>

\* c_cc[VTIME] is an unsigned char of tenths of a second
set_timeout(tio, timeout) ==
  [tio EXCEPT !.VMIN = 255, !.VTIME = (timeout \div 100) % 256]

\* the wait receive_port applies, in ms
PortTimeout(tio) == tio.VTIME * 100

\* the baudrates with a speed_t code on every platform
Bauds == {4800, 9600, 19200, 38400, 57600, 115200}

\* the switch from a baudrate to the speed_t code; any other number is
\* handed to cfsetospeed as it is
BaudCode(baudrate) ==
  CASE baudrate = 4800 -> "B4800"
    [] baudrate = 9600 -> "B9600"
    [] baudrate = 19200 -> "B19200"
    [] baudrate = 38400 -> "B38400"
    [] baudrate = 57600 -> "B57600"
    [] baudrate = 115200 -> "B115200"
    [] OTHER -> ToString(baudrate)

UINT32_MAX == [h |-> 65535, l |-> 65535]

\* the switch from the speed_t code back to a baudrate
BaudOf(brate) ==
  CASE brate = "B4800" -> 4800
    [] brate = "B9600" -> 9600
    [] brate = "B19200" -> 19200
    [] brate = "B38400" -> 38400
    [] brate = "B57600" -> 57600
    [] brate = "B115200" -> 115200
    [] OTHER -> UINT32_MAX

\* c_cflag is the set of its bits that are 1; CSIZE is a field of two bits
\* (CS5 = none, CS6 = the low one, CS7 = the high one, CS8 = both)
CSIZE == {"CSIZE0", "CSIZE1"}
CS7 == {"CSIZE1"}
CS8 == {"CSIZE0", "CSIZE1"}
PARENB == {"PARENB"}
PARODD == {"PARODD"}
CSTOPB == {"CSTOPB"}
TIOCM_RTS == {"TIOCM_RTS"}
TIOCM_DTR == {"TIOCM_DTR"}

NoAttr ==
  [baudrate |-> 0, timeout |-> 0, numBits |-> 0, parity |-> 0, numStop |-> 0,
   RTS |-> 0, DTR |-> 0]

\* the other flags the code names, each a set of bit names
CRTSCTS == {"CRTSCTS"}
CREAD == {"CREAD"}
CLOCAL == {"CLOCAL"}
IXON == {"IXON"}
IXOFF == {"IXOFF"}
IXANY == {"IXANY"}
ICANON == {"ICANON"}
ECHO == {"ECHO"}
ECHOE == {"ECHOE"}
ISIG == {"ISIG"}
OPOST == {"OPOST"}

\* settings a serial line may have when it is opened: a login line, every
\* bit set, no bit set
OsTermios ==
  {[VMIN |-> 1, VTIME |-> 0, speed |-> "B9600",
    c_cflag |-> CS8 \cup CREAD \cup {"HUPCL"},
    c_iflag |-> IXON \cup {"ICRNL"},
    c_oflag |-> OPOST \cup {"ONLCR"},
    c_lflag |-> ICANON \cup ECHO \cup ECHOE \cup ISIG \cup {"IEXTEN"}],
   [VMIN |-> 1, VTIME |-> 0, speed |-> "B9600",
    c_cflag |-> CS8 \cup PARENB \cup PARODD \cup CSTOPB \cup CRTSCTS
                \cup CREAD \cup CLOCAL,
    c_iflag |-> IXON \cup IXOFF \cup IXANY,
    c_oflag |-> OPOST,
    c_lflag |-> ICANON \cup ECHO \cup ECHOE \cup ISIG],
   [VMIN |-> 0, VTIME |-> 0, speed |-> "B9600",
    c_cflag |-> {}, c_iflag |-> {}, c_oflag |-> {}, c_lflag |-> {}]}

\* c_cflag after the parity branches of init_port
init_parity(f, parity) ==
  IF parity = 0 THEN f \ PARENB
  ELSE IF parity = 1 THEN (f \cup PARENB) \cup PARODD
  ELSE IF parity = 2 THEN (f \cup PARENB) \ PARODD
  ELSE f

\* faulty variant of init_port: echo and software flow control are left as
\* they were
init_port_echo(tio, a) ==
  LET f1 == IF a.numBits = 7 THEN tio.c_cflag \cup CS7 ELSE tio.c_cflag \cup CS8
      f2 == init_parity(f1, a.parity)
      f3 == IF a.numStop = 1 THEN f2 \ CSTOPB ELSE f2 \cup CSTOPB
      f4 == f3 \ CSIZE
  IN [VMIN |-> 255, VTIME |-> (a.timeout \div 100) % 256,
      speed |-> BaudCode(a.baudrate),
      c_cflag |-> ((f4 \ CRTSCTS) \cup CREAD) \cup CLOCAL,
      c_iflag |-> tio.c_iflag,
      c_oflag |-> tio.c_oflag \ OPOST,
      c_lflag |-> tio.c_lflag \ (ICANON \cup ISIG)]

\* the settings init_port hands to tcsetattr, from those tcgetattr gave
init_port(tio, a) ==
  LET f1 == IF a.numBits = 7 THEN tio.c_cflag \cup CS7 ELSE tio.c_cflag \cup CS8
      f2 == init_parity(f1, a.parity)
      f3 == IF a.numStop = 1 THEN f2 \ CSTOPB ELSE f2 \cup CSTOPB
      f4 == f3 \ CSIZE
  IN [VMIN |-> 255, VTIME |-> (a.timeout \div 100) % 256,
      speed |-> BaudCode(a.baudrate),
      c_cflag |-> ((f4 \ CRTSCTS) \cup CREAD) \cup CLOCAL,
      c_iflag |-> tio.c_iflag \ (IXON \cup IXOFF \cup IXANY),
      c_oflag |-> tio.c_oflag \ OPOST,
      c_lflag |-> tio.c_lflag \ (ICANON \cup ECHO \cup ECHOE \cup ISIG)]

\* the settings init_port leaves on a login line for
\* (115200, 0, 8, 0, 1, 0, 0)
InitTermios ==
  init_port(CHOOSE t \in OsTermios : "HUPCL" \in t.c_cflag,
            [baudrate |-> 115200, timeout |-> 0, numBits |-> 8, parity |-> 0,
             numStop |-> 1, RTS |-> 0, DTR |-> 0])

\* the modem lines after the ioctl(TIOCMGET)/ioctl(TIOCMSET) pair
set_modem(status, RTS, DTR) ==
  LET s1 == IF RTS = 1 THEN status \cup TIOCM_RTS ELSE status \ TIOCM_RTS
  IN IF DTR = 1 THEN s1 \cup TIOCM_DTR ELSE s1 \ TIOCM_DTR

\* faulty variant: the settings are those of a line opened anew, with the
\* baudrate
set_baudrate_fresh(tio, baudrate) ==
  [tio EXCEPT !.speed = BaudCode(baudrate), !.VMIN = 1, !.VTIME = 0]

\* cfsetispeed/cfsetospeed on the settings read by tcgetattr
set_baudrate(tio, baudrate) == [tio EXCEPT !.speed = BaudCode(baudrate)]

\* the settings set_port_attribute hands to tcsetattr
set_port_attribute(tio, a) ==
  LET f1 == IF a.numBits = 7 THEN tio.c_cflag \cup CS7 ELSE tio.c_cflag \cup CS8
      f2 == f1 \ PARENB
      f3 == IF a.numStop = 1 THEN f2 \ CSTOPB ELSE f2 \cup CSTOPB
      f4 == f3 \ CSIZE
  IN [VMIN |-> 255, VTIME |-> (a.timeout \div 100) % 256,
      speed |-> BaudCode(a.baudrate),
      c_cflag |-> ((f4 \ CRTSCTS) \cup CREAD) \cup CLOCAL,
      c_iflag |-> tio.c_iflag \ (IXON \cup IXOFF \cup IXANY),
      c_oflag |-> tio.c_oflag \ OPOST,
      c_lflag |-> tio.c_lflag \ (ICANON \cup ECHO \cup ECHOE \cup ISIG)]

\* what get_port_attribute stores through its pointers
get_port_attribute(tio, status) ==
  [baudrate |-> BaudOf(tio.speed),
   timeout |-> tio.VTIME * 100,
   numBits |-> IF tio.c_cflag \cap CS8 /= {} THEN 8 ELSE 7,
   parity |-> IF tio.c_cflag \cap PARENB /= {} THEN 1 ELSE 0,
   numStop |-> IF tio.c_cflag \cup CSTOPB /= {} THEN 2 ELSE 1,
   RTS |-> IF status \cup TIOCM_RTS /= {} THEN 1 ELSE 0,
   DTR |-> IF status \cup TIOCM_DTR /= {} THEN 1 ELSE 0]

\* faulty variant of close_port: the handle is left as it was
close_port_keep(fpCom) ==
  [fpCom |-> fpCom, closed |-> IF fpCom /= 0 THEN <<fpCom>> ELSE <<>>]

\* close_port(&fpCom): the handle afterwards and the descriptors handed to
\* close()
close_port(fpCom) ==
  [fpCom |-> 0, closed |-> IF fpCom /= 0 THEN <<fpCom>> ELSE <<>>]

\* faulty variant of the select/read loop: a timeout of 0 waits for data
\* without limit
RECURSIVE receive_port_loop_block(_, _, _)
receive_port_loop_block(timeout, remaining, sched) ==
  IF remaining = 0 THEN [got |-> <<>>, waits |-> <<>>]
  ELSE IF sched = <<>>
          \/ (timeout > 0 /\ Head(sched).gap > 0 /\ Head(sched).gap >= timeout)
  THEN [got |-> <<>>, waits |-> <<timeout>>]
  ELSE LET rest == receive_port_loop_block(timeout, remaining - 1, Tail(sched))
       IN [got |-> <<Head(sched).b>> \o rest.got,
           waits |-> <<Head(sched).gap>> \o rest.waits]

\* the select/read loop with its waits: `sched` gives, for each byte on its
\* way, the time from the start of a select to the byte's arrival; every
\* select gets the whole timeout
RECURSIVE receive_port_loop(_, _, _)
receive_port_loop(timeout, remaining, sched) ==
  IF remaining = 0 THEN [got |-> <<>>, waits |-> <<>>]
  ELSE IF sched = <<>> \/ (Head(sched).gap > 0 /\ Head(sched).gap >= timeout)
  THEN [got |-> <<>>, waits |-> <<timeout>>]
  ELSE LET rest == receive_port_loop(timeout, remaining - 1, Tail(sched))
       IN [got |-> <<Head(sched).b>> \o rest.got,
           waits |-> <<Head(sched).gap>> \o rest.waits]

(***************************************************************************)
(* Frames.                                                                 *)
(***************************************************************************)
\* Tx[0] = op; Tx[1] = (Tx[0] ^ 0xFF)
CmdFrame(op) == <<ToChar(op), CXor(ToChar(op), 255)>>

AddrTx(a) ==
  LET t0 == ToChar(a.h \div 256)
      t1 == ToChar(a.h)
      t2 == ToChar(a.l \div 256)
      t3 == ToChar(a.l)
  IN <<t0, t1, t2, t3, CXor(CXor(CXor(t0, t1), t2), t3)>>

\* faulty variant of the address frame: the two low bytes change places
AddrTx_swapped(a) ==
  LET t0 == ToChar(a.h \div 256)
      t1 == ToChar(a.h)
      t2 == ToChar(a.l)
      t3 == ToChar(a.l \div 256)
  IN <<t0, t1, t2, t3, CXor(CXor(CXor(t0, t1), t2), t3)>>

\* faulty variant of the address frame: lowest byte first
AddrTx_lowfirst(a) ==
  LET t0 == ToChar(a.l)
      t1 == ToChar(a.l \div 256)
      t2 == ToChar(a.h)
      t3 == ToChar(a.h \div 256)
  IN <<t0, t1, t2, t3, CXor(CXor(CXor(t0, t1), t2), t3)>>

\* faulty variant of the address frame: the checksum is the sum of the bytes
AddrTx_sum(a) ==
  LET f == AddrTx(a)
  IN <<f[1], f[2], f[3], f[4], ToChar(f[1] + f[2] + f[3] + f[4])>>

memRead_addr(a) == AddrTx(a)
memCheck_addr(a) == AddrTx(a)
memWrite_addr(a) == AddrTx(a)
jumpTo_addr(a) == AddrTx(a)

(***************************************************************************)
(* Steps shared by the functions.                                          *)
(***************************************************************************)
NoLoc ==
  [addrStart |-> U32Of(0), numBytes |-> 0, addr |-> U32Of(0),
   addrTmp |-> U32Of(0), addrStep |-> U32Of(0),
   idx |-> 0, count |-> 0, sector |-> 0, probe |-> 0, caller |-> "",
   attr |-> NoAttr, n |-> 0, remaining |-> 0]

NoErr == [msg |-> "", val |-> 0]
NoHist ==
  [fn |-> "", ret |-> 0, addrStart |-> U32Of(0), numBytes |-> 0, buf |-> <<>>,
   mem0 |-> <<>>, attr |-> NoAttr, ptrPort |-> 0, inbuf |-> <<>>]

\* the function the caller called
TopFn == IF loc.caller /= "" THEN loc.caller ELSE fn

Exit(msg, v) ==
  /\ pc' = "exit"
  /\ err' = [msg |-> msg, val |-> v]
  /\ ret' = ret

Return(v) ==
  /\ pc' = "done"
  /\ ret' = v
  /\ err' = err

Goto(p) ==
  /\ pc' = p
  /\ ret' = ret
  /\ err' = err

\* a call from the idle caller
Enter ==
  /\ pc = "idle"
  /\ calls < MaxCalls
  /\ wire' = <<>>
  /\ timeout0' = PortTimeout(termios)
  /\ mem0' = mem
  /\ calls' = calls + 1
  /\ hist' = hist
  /\ UNCHANGED osVars

\* faulty variant of the send step: the next frame goes out before the
\* reply to this one is received
SendStep_pipelined(msg) ==
  /\ pc = "send"
  /\ Len(wire) < 4
  /\ \E w \in send_port(Tx) :
       /\ wire' = Append(wire, [d |-> "tx", n |-> Len(Tx),
                                b |-> SubSeq(Bytes(Tx), 1, w.sent)])
       /\ IF w.ret /= Len(Tx) THEN Exit(msg, 0) ELSE Goto("send")
  /\ UNCHANGED <<fn, phase, loc, Tx, lenRx, Rx, callerVars, portVars, envVars,
                 probes, timeout0, mem0, hist, calls, osVars>>

\* send_port(ptrPort, lenTx, Tx) and the check of its result
SendStep(msg) ==
  /\ pc = "send"
  /\ \E w \in send_port(Tx) :
       /\ wire' = Append(wire, [d |-> "tx", n |-> Len(Tx),
                                b |-> SubSeq(Bytes(Tx), 1, w.sent)])
       /\ IF w.ret /= Len(Tx) THEN Exit(msg, 0) ELSE Goto("recv")
  /\ UNCHANGED <<fn, phase, loc, Tx, lenRx, Rx, callerVars, portVars, envVars,
                 probes, timeout0, mem0, hist, calls, osVars>>

\* what a receive_port call changes outside the function's own variables
Receive(a, r) ==
  /\ inbuf' = r.inbuf
  /\ tgt' = a.tgt
  /\ mem' = a.mem
  /\ noise' = a.noise
  /\ wire' = Append(wire, [d |-> "rx", n |-> lenRx, b |-> r.got])
  /\ UNCHANGED <<ptrPort, line, timeout0, mem0, hist, calls, osVars>>

\* faulty variant of the error exit: the frame is sent once more
Fail_retry(msg, v, r) ==
  /\ Goto("send")
  /\ Rx' = r.Rx
  /\ UNCHANGED <<fn, phase, loc, Tx, lenRx, callerVars, termios, probes>>

\* an Exit(1, ..) after a receive
Fail(msg, v, r) ==
  /\ Exit(msg, v)
  /\ Rx' = r.Rx
  /\ UNCHANGED <<fn, phase, loc, Tx, lenRx, callerVars, termios, probes>>

\* the next frame is built after a receive
NextSend(ph, T, n, r) ==
  /\ Goto("send")
  /\ phase' = ph
  /\ Tx' = T
  /\ lenRx' = n
  /\ Rx' = r.Rx
  /\ UNCHANGED <<fn, flashsize, vers, termios, probes>>

(***************************************************************************)
(* bsl_sync                                                                *)
(***************************************************************************)
\* faulty variants of the loop condition: gives up after 14 rounds; does
\* not take NACK for an answer
bsl_sync_again_14(count, len, R) ==
  (count < 14) /\ ((len /= 1) \/ ((RxAt(R, 0) /= ACK) /\ (RxAt(R, 0) /= NACK)))

bsl_sync_again_ackonly(count, len, R) ==
  (count < 15) /\ ((len /= 1) \/ (RxAt(R, 0) /= ACK))

\* faulty variant of the loop condition: any single byte ends the loop
bsl_sync_again_anybyte(count, len, R) ==
  (count < 15) /\ (len /= 1)

\* the while condition of the do loop
bsl_sync_again(count, len, R) ==
  (count < 15) /\ ((len /= 1) \/ ((RxAt(R, 0) /= ACK) /\ (RxAt(R, 0) /= NACK)))

bsl_sync_call ==
  /\ Enter
  /\ fn' = "bsl_sync"
  /\ Rx' = <<>>
  /\ probes' = <<>>
  /\ IF ptrPort = 0
     THEN /\ Exit("port not open", 0)
          /\ UNCHANGED <<phase, loc, Tx, lenRx, inbuf>>
     ELSE /\ inbuf' = flush_port
          /\ Tx' = <<ToChar(SYNCH)>>
          /\ lenRx' = 1
          /\ loc' = [NoLoc EXCEPT !.count = 0]
          /\ phase' = "sync"
          /\ Goto("send")
  /\ UNCHANGED <<callerVars, ptrPort, termios, envVars>>

bsl_sync_send ==
  /\ fn = "bsl_sync"
  /\ SendStep("sending command failed")

bsl_sync_recv ==
  /\ pc = "recv"
  /\ fn = "bsl_sync"
  /\ \E a \in Arrivals :
       LET r == receive_port(lenRx, Rx, a.reply)
           count == loc.count + 1
       IN /\ Receive(a, r)
          /\ Rx' = r.Rx
          /\ loc' = [loc EXCEPT !.count = count]
          /\ IF bsl_sync_again(count, r.len, r.Rx) THEN Goto("send")
             ELSE IF r.len = lenRx /\ RxAt(r.Rx, 0) = ACK THEN Return(0)
             ELSE IF r.len = lenRx /\ RxAt(r.Rx, 0) = NACK THEN Return(0)
             ELSE IF r.len = lenRx THEN Exit("wrong response", RxAt(r.Rx, 0))
             ELSE Exit("no response", 0)
  /\ UNCHANGED <<fn, phase, Tx, lenRx, callerVars, termios, probes>>

(***************************************************************************)
(* bsl_memCheck and bsl_getInfo                                            *)
(***************************************************************************)
\* faulty variant of the table: medium density is checked before high density
DensityProbes_swapped ==
  << [addr |-> 294911, size |-> 256], [addr |-> 65535, size |-> 32],
     [addr |-> 163839, size |-> 128], [addr |-> 40959, size |-> 8] >>

\* faulty variant of the table: a fifth density is checked
DensityProbes_extra ==
  << [addr |-> 294911, size |-> 256], [addr |-> 163839, size |-> 128],
     [addr |-> 65535, size |-> 32], [addr |-> 40959, size |-> 8],
     [addr |-> 36863, size |-> 4] >>

\* the addresses bsl_getInfo checks and the flash size (kB) each stands for
DensityProbes ==
  << [addr |-> 294911, size |-> 256], [addr |-> 163839, size |-> 128],
     [addr |-> 65535, size |-> 32], [addr |-> 40959, size |-> 8] >>

\* faulty variant of the range frame: two bytes are asked for
memCheck_len_two == <<ToChar(2 - 1), CXor(ToChar(2 - 1), 255)>>

\* Tx[0] = 1-1; Tx[1] = (Tx[0] ^ 0xFF)
memCheck_len == <<ToChar(1 - 1), CXor(ToChar(1 - 1), 255)>>

\* bsl_memCheck(ptrPort, addr) up to its first send_port; `log` are the
\* checks made before this one
bsl_memCheck_enter(addr, caller, probe, log) ==
  /\ fn' = "bsl_memCheck"
  /\ Rx' = <<>>
  /\ probes' = Append(log, [addr |-> addr, res |-> NotWritten])
  /\ loc' = [NoLoc EXCEPT !.addr = U32Of(addr), !.caller = caller, !.probe = probe]
  /\ IF ptrPort = 0
     THEN /\ Exit("port not open", 0)
          /\ UNCHANGED <<phase, Tx, lenRx>>
     ELSE /\ Tx' = CmdFrame(READ)
          /\ lenRx' = 1
          /\ phase' = "cmd"
          /\ Goto("send")

bsl_memCheck_call ==
  /\ Enter
  /\ \E addr \in CheckAddrs : bsl_memCheck_enter(addr, "", 0, <<>>)
  /\ UNCHANGED <<callerVars, portVars, envVars>>

bsl_memCheck_send ==
  /\ fn = "bsl_memCheck"
  /\ SendStep(CASE phase = "cmd" -> "sending command failed"
                [] phase = "addr" -> "sending address failed"
                [] OTHER -> "sending range failed")

\* faulty variant: the timeout is not set again before the GET command
bsl_getInfo_probed_short(v, log) ==
  IF v /= 0
  THEN /\ flashsize' = DensityProbes[loc.probe].size
       /\ termios' = termios
       /\ fn' = "bsl_getInfo"
       /\ phase' = "get"
       /\ Tx' = CmdFrame(GET)
       /\ lenRx' = 9
       /\ Rx' = <<>>
       /\ loc' = [loc EXCEPT !.caller = ""]
       /\ Goto("send")
       /\ probes' = log
       /\ UNCHANGED <<buf, vers>>
  ELSE IF loc.probe < Len(DensityProbes)
  THEN /\ bsl_memCheck_enter(DensityProbes[loc.probe + 1].addr, "bsl_getInfo",
                             loc.probe + 1, log)
       /\ UNCHANGED <<callerVars, termios>>
  ELSE /\ Exit("cannot identify device", 0)
       /\ fn' = "bsl_getInfo"
       /\ Rx' = <<>>
       /\ loc' = [loc EXCEPT !.caller = ""]
       /\ probes' = log
       /\ UNCHANGED <<phase, Tx, lenRx, callerVars, termios>>

\* faulty variant: the timeout found at the call is set again before the GET
\* command
bsl_getInfo_probed_restore(v, log) ==
  IF v /= 0
  THEN /\ flashsize' = DensityProbes[loc.probe].size
       /\ termios' = set_timeout(termios, timeout0)
       /\ fn' = "bsl_getInfo"
       /\ phase' = "get"
       /\ Tx' = CmdFrame(GET)
       /\ lenRx' = 9
       /\ Rx' = <<>>
       /\ loc' = [loc EXCEPT !.caller = ""]
       /\ Goto("send")
       /\ probes' = log
       /\ UNCHANGED <<buf, vers>>
  ELSE IF loc.probe < Len(DensityProbes)
  THEN /\ bsl_memCheck_enter(DensityProbes[loc.probe + 1].addr, "bsl_getInfo",
                             loc.probe + 1, log)
       /\ UNCHANGED <<callerVars, termios>>
  ELSE /\ Exit("cannot identify device", 0)
       /\ fn' = "bsl_getInfo"
       /\ Rx' = <<>>
       /\ loc' = [loc EXCEPT !.caller = ""]
       /\ probes' = log
       /\ UNCHANGED <<phase, Tx, lenRx, callerVars, termios>>

\* bsl_getInfo from the return of a bsl_memCheck to its next send_port
bsl_getInfo_probed(v, log) ==
  IF v /= 0
  THEN /\ flashsize' = DensityProbes[loc.probe].size
       /\ termios' = set_timeout(termios, 1000)
       /\ fn' = "bsl_getInfo"
       /\ phase' = "get"
       /\ Tx' = CmdFrame(GET)
       /\ lenRx' = 9
       /\ Rx' = <<>>
       /\ loc' = [loc EXCEPT !.caller = ""]
       /\ Goto("send")
       /\ probes' = log
       /\ UNCHANGED <<buf, vers>>
  ELSE IF loc.probe < Len(DensityProbes)
  THEN /\ bsl_memCheck_enter(DensityProbes[loc.probe + 1].addr, "bsl_getInfo",
                             loc.probe + 1, log)
       /\ UNCHANGED <<callerVars, termios>>
  ELSE /\ Exit("cannot identify device", 0)
       /\ fn' = "bsl_getInfo"
       /\ Rx' = <<>>
       /\ loc' = [loc EXCEPT !.caller = ""]
       /\ probes' = log
       /\ UNCHANGED <<phase, Tx, lenRx, callerVars, termios>>

\* faulty variant of the return: a refused address is an error
bsl_memCheck_return_strict(v, r) ==
  LET log == [probes EXCEPT ![Len(probes)].res = v] IN
  IF v = 0 THEN Fail("ACK2 failure", 0, r)
  ELSE IF loc.caller = ""
  THEN /\ Return(v)
       /\ Rx' = r.Rx
       /\ probes' = log
       /\ UNCHANGED <<fn, phase, loc, Tx, lenRx, callerVars, termios>>
  ELSE bsl_getInfo_probed(v, log)

\* return(v) of bsl_memCheck
bsl_memCheck_return(v, r) ==
  LET log == [probes EXCEPT ![Len(probes)].res = v] IN
  IF loc.caller = ""
  THEN /\ Return(v)
       /\ Rx' = r.Rx
       /\ probes' = log
       /\ UNCHANGED <<fn, phase, loc, Tx, lenRx, callerVars, termios>>
  ELSE bsl_getInfo_probed(v, log)

bsl_memCheck_recv ==
  /\ pc = "recv"
  /\ fn = "bsl_memCheck"
  /\ \E a \in Arrivals :
       LET r == receive_port(lenRx, Rx, a.reply) IN
       /\ Receive(a, r)
       /\ CASE phase = "cmd" ->
                 IF r.len /= lenRx THEN Fail("ACK1 timeout", 0, r)
                 ELSE IF RxAt(r.Rx, 0) /= ACK
                 THEN Fail("ACK1 failure", RxAt(r.Rx, 0), r)
                 ELSE /\ NextSend("addr", memCheck_addr(loc.addr), 1, r)
                      /\ UNCHANGED <<loc, buf>>
            [] phase = "addr" ->
                 IF r.len /= lenRx THEN Fail("ACK2 timeout", 0, r)
                 ELSE IF RxAt(r.Rx, 0) /= ACK THEN bsl_memCheck_return(0, r)
                 ELSE /\ NextSend("len", memCheck_len, 2, r)
                      /\ UNCHANGED <<loc, buf>>
            [] OTHER ->
                 IF r.len /= lenRx THEN Fail("data timeout", 0, r)
                 ELSE IF RxAt(r.Rx, 0) /= ACK THEN Fail("ACK3 failure", 0, r)
                 ELSE bsl_memCheck_return(1, r)

bsl_getInfo_call ==
  /\ Enter
  /\ IF ptrPort = 0
     THEN /\ Exit("port not open", 0)
          /\ fn' = "bsl_getInfo"
          /\ Rx' = <<>>
          /\ probes' = <<>>
          /\ UNCHANGED <<phase, loc, Tx, lenRx, termios, inbuf>>
     ELSE /\ inbuf' = flush_port
          /\ termios' = set_timeout(termios, 100)
          /\ bsl_memCheck_enter(DensityProbes[1].addr, "bsl_getInfo", 1, <<>>)
  /\ UNCHANGED <<callerVars, ptrPort, envVars>>

bsl_getInfo_send ==
  /\ fn = "bsl_getInfo"
  /\ SendStep("sending command failed")

\* faulty variant of the receive step: the ERASE code is not looked at
bsl_getInfo_recv_noerase ==
  /\ pc = "recv"
  /\ fn = "bsl_getInfo"
  /\ \E a \in Arrivals :
       LET r == receive_port(lenRx, Rx, a.reply) IN
       /\ Receive(a, r)
       /\ IF r.len /= lenRx THEN Fail("ACK timeout", 0, r)
          ELSE IF RxAt(r.Rx, 0) /= ACK \/ RxAt(r.Rx, 8) /= ACK
          THEN Fail("ACK failure", 0, r)
          ELSE IF RxAt(r.Rx, 3) /= GET THEN Fail("wrong GET code", GET, r)
          ELSE IF RxAt(r.Rx, 4) /= READ THEN Fail("wrong READ code", READ, r)
          ELSE IF RxAt(r.Rx, 5) /= GO THEN Fail("wrong GO code", GO, r)
          ELSE IF RxAt(r.Rx, 6) /= WRITE THEN Fail("wrong WRITE code", WRITE, r)
          ELSE /\ vers' = ToByte(RxAt(r.Rx, 2))
               /\ Return(0)
               /\ Rx' = r.Rx
               /\ UNCHANGED <<fn, phase, loc, Tx, lenRx, buf, flashsize, termios, probes>>

bsl_getInfo_recv ==
  /\ pc = "recv"
  /\ fn = "bsl_getInfo"
  /\ \E a \in Arrivals :
       LET r == receive_port(lenRx, Rx, a.reply) IN
       /\ Receive(a, r)
       /\ IF r.len /= lenRx THEN Fail("ACK timeout", 0, r)
          ELSE IF RxAt(r.Rx, 0) /= ACK \/ RxAt(r.Rx, 8) /= ACK
          THEN Fail("ACK failure", 0, r)
          ELSE IF RxAt(r.Rx, 3) /= GET THEN Fail("wrong GET code", GET, r)
          ELSE IF RxAt(r.Rx, 4) /= READ THEN Fail("wrong READ code", READ, r)
          ELSE IF RxAt(r.Rx, 5) /= GO THEN Fail("wrong GO code", GO, r)
          ELSE IF RxAt(r.Rx, 6) /= WRITE THEN Fail("wrong WRITE code", WRITE, r)
          ELSE IF RxAt(r.Rx, 7) /= ERASE THEN Fail("wrong ERASE code", ERASE, r)
          ELSE /\ vers' = ToByte(RxAt(r.Rx, 2))
               /\ Return(0)
               /\ Rx' = r.Rx
               /\ UNCHANGED <<fn, phase, loc, Tx, lenRx, buf, flashsize, termios, probes>>

(***************************************************************************)
(* bsl_memRead                                                             *)
(***************************************************************************)
\* addrStart+numBytes
RangeEnd(l) == U32Add(l.addrStart, U32Of(l.numBytes))

\* faulty variant of the loop condition: stops one address early
memRead_more_early(l) == U32Lt(U32Add(l.addrTmp, U32Of(1)), RangeEnd(l))

\* the loop condition addrTmp<addrStart+numBytes
memRead_more(l) == U32Lt(l.addrTmp, RangeEnd(l))

\* if addr too close to end of range reduce stepsize
memRead_step(l) ==
  IF U32Lt(RangeEnd(l), U32Add(l.addrTmp, U32Of(256)))
  THEN U32Sub(RangeEnd(l), l.addrTmp)
  ELSE l.addrStep

\* Tx[0] = addrStep-1; Tx[1] = (Tx[0] ^ 0xFF)
memRead_len(step) == <<ToChar(U32Nat(step) - 1), CXor(ToChar(U32Nat(step) - 1), 255)>>

\* for (i=1; i<lenRx; i++) buf[idx++] = Rx[i]
memRead_copy(b, idx, R, n) ==
  [k \in 1..Len(b) |-> IF k > idx /\ k <= idx + n - 1 THEN RxAt(R, k - idx) ELSE b[k]]

\* the head of the for loop with locals l: another transaction or return(0)
memRead_top(l) ==
  IF memRead_more(l)
  THEN /\ loc' = [l EXCEPT !.addrStep = memRead_step(l)]
       /\ Tx' = CmdFrame(READ)
       /\ lenRx' = 1
       /\ phase' = "cmd"
       /\ Goto("send")
  ELSE /\ loc' = l
       /\ Return(0)
       /\ UNCHANGED <<Tx, lenRx, phase>>

bsl_memRead_call ==
  /\ Enter
  /\ fn' = "bsl_memRead"
  /\ Rx' = <<>>
  /\ probes' = <<>>
  /\ \E addrStart \in Starts, numBytes \in Lens :
       LET l == [NoLoc EXCEPT !.addrStart = addrStart, !.numBytes = numBytes,
                              !.addrTmp = addrStart, !.addrStep = U32Of(256),
                              !.idx = 0]
       IN IF ptrPort = 0
          THEN /\ Exit("port not open", 0)
               /\ loc' = [l EXCEPT !.addrStep = U32Of(0)]
               /\ UNCHANGED <<phase, Tx, lenRx, buf>>
          ELSE /\ buf' = [i \in 1..numBytes |-> 0]
               /\ memRead_top(l)
  /\ UNCHANGED <<flashsize, vers, portVars, envVars>>

bsl_memRead_send ==
  /\ fn = "bsl_memRead"
  /\ SendStep(CASE phase = "cmd" -> "sending command failed"
                [] phase = "addr" -> "sending address failed"
                [] OTHER -> "sending range failed")

bsl_memRead_recv ==
  /\ pc = "recv"
  /\ fn = "bsl_memRead"
  /\ \E a \in Arrivals :
       LET r == receive_port(lenRx, Rx, a.reply) IN
       /\ Receive(a, r)
       /\ CASE phase = "cmd" ->
                 IF r.len /= lenRx THEN Fail("ACK1 timeout", 0, r)
                 ELSE IF RxAt(r.Rx, 0) /= ACK
                 THEN Fail("ACK1 failure", RxAt(r.Rx, 0), r)
                 ELSE /\ NextSend("addr", memRead_addr(loc.addrTmp), 1, r)
                      /\ UNCHANGED <<loc, buf>>
            [] phase = "addr" ->
                 IF r.len /= lenRx THEN Fail("ACK2 timeout", 0, r)
                 ELSE IF RxAt(r.Rx, 0) /= ACK THEN Fail("ACK2 failure", 0, r)
                 ELSE /\ NextSend("len", memRead_len(loc.addrStep),
                                  U32Nat(loc.addrStep) + 1, r)
                      /\ UNCHANGED <<loc, buf>>
            [] OTHER ->
                 IF r.len /= lenRx THEN Fail("data timeout", 0, r)
                 ELSE IF RxAt(r.Rx, 0) /= ACK THEN Fail("ACK3 failure", 0, r)
                 ELSE /\ buf' = memRead_copy(buf, loc.idx, r.Rx, lenRx)
                      /\ Rx' = r.Rx
                      /\ memRead_top([loc EXCEPT
                           !.idx = loc.idx + lenRx - 1,
                           !.addrTmp = U32Add(loc.addrTmp, loc.addrStep)])
                      /\ UNCHANGED <<fn, flashsize, vers, termios, probes>>

(***************************************************************************)
(* bsl_memWrite                                                            *)
(***************************************************************************)
memWrite_more(l) == U32Lt(l.addrTmp, RangeEnd(l))

memWrite_step(l) ==
  IF U32Lt(RangeEnd(l), U32Add(l.addrTmp, U32Of(128)))
  THEN U32Sub(RangeEnd(l), l.addrTmp)
  ELSE l.addrStep

\* faulty variant: the number of bytes is left out of the checksum
memWrite_chk_data(chk, d) == XorAll(d)

\* chk ^= Tx[lenTx] over the data chars d, chk being a uint8_t: each char is
\* promoted to int (sign-extended), and the low eight bits are kept
memWrite_chk(chk, d) == XorAll(<<chk>> \o d)

\* number of bytes, data and checksum
memWrite_data(step, b, idx) ==
  LET n == U32Nat(step)
      d == SubSeq(b, idx + 1, idx + n)
  IN <<ToChar(n - 1)>> \o d \o <<ToChar(memWrite_chk((n - 1) % 256, d))>>

memWrite_top(l) ==
  IF memWrite_more(l)
  THEN /\ loc' = [l EXCEPT !.addrStep = memWrite_step(l)]
       /\ Tx' = CmdFrame(WRITE)
       /\ lenRx' = 1
       /\ phase' = "cmd"
       /\ Goto("send")
  ELSE /\ loc' = l
       /\ Return(0)
       /\ UNCHANGED <<Tx, lenRx, phase>>

bsl_memWrite_call ==
  /\ Enter
  /\ fn' = "bsl_memWrite"
  /\ Rx' = <<>>
  /\ probes' = <<>>
  /\ \E addrStart \in Starts, numBytes \in Lens :
       \E data \in {WriteData(numBytes)} \cup (IF Len(buf) = numBytes THEN {buf} ELSE {}) :
         LET l == [NoLoc EXCEPT !.addrStart = addrStart, !.numBytes = numBytes,
                                !.addrTmp = addrStart, !.addrStep = U32Of(128),
                                !.idx = 0]
         IN /\ buf' = data
            /\ IF ptrPort = 0
               THEN /\ Exit("port not open", 0)
                    /\ loc' = [l EXCEPT !.addrStep = U32Of(0)]
                    /\ UNCHANGED <<phase, Tx, lenRx>>
               ELSE memWrite_top(l)
  /\ UNCHANGED <<flashsize, vers, portVars, envVars>>

bsl_memWrite_send ==
  /\ fn = "bsl_memWrite"
  /\ SendStep(CASE phase = "cmd" -> "sending command failed"
                [] phase = "addr" -> "sending address failed"
                [] OTHER -> "sending data failed")

bsl_memWrite_recv ==
  /\ pc = "recv"
  /\ fn = "bsl_memWrite"
  /\ \E a \in Arrivals :
       LET r == receive_port(lenRx, Rx, a.reply) IN
       /\ Receive(a, r)
       /\ CASE phase = "cmd" ->
                 IF r.len /= lenRx THEN Fail("ACK1 timeout", 0, r)
                 ELSE IF RxAt(r.Rx, 0) /= ACK THEN Fail("ACK1 failure", 0, r)
                 ELSE /\ NextSend("addr", memWrite_addr(loc.addrTmp), 1, r)
                      /\ UNCHANGED <<loc, buf>>
            [] phase = "addr" ->
                 IF r.len /= lenRx THEN Fail("ACK2 timeout", 0, r)
                 ELSE IF RxAt(r.Rx, 0) /= ACK THEN Fail("ACK2 failure", 0, r)
                 ELSE /\ NextSend("data", memWrite_data(loc.addrStep, buf, loc.idx), 1, r)
                      /\ loc' = [loc EXCEPT !.idx = loc.idx + U32Nat(loc.addrStep)]
                      /\ buf' = buf
            [] OTHER ->
                 IF r.len /= lenRx THEN Fail("ACK3 timeout", 0, r)
                 ELSE IF RxAt(r.Rx, 0) /= ACK THEN Fail("ACK3 failure", 0, r)
                 ELSE /\ Rx' = r.Rx
                      /\ memWrite_top([loc EXCEPT
                           !.addrTmp = U32Add(loc.addrTmp, loc.addrStep)])
                      /\ UNCHANGED <<fn, callerVars, termios, probes>>

(***************************************************************************)
(* bsl_flashErase                                                          *)
(***************************************************************************)
\* faulty variant of the sector code: the flash start is not subtracted
flashErase_sector_abs(addr) == (addr.h * 64 + (addr.l \div 1024)) % 256

\* sector = (addr - 0x8000)/1024, a uint32_t quotient stored into a uint8_t
flashErase_sector(addr) ==
  LET d == U32Sub(addr, U32Of(32768)) IN (d.h * 64 + (d.l \div 1024)) % 256

\* Tx[0] = 0x00; Tx[1] = sector; Tx[2] = (Tx[0] ^ Tx[1])
flashErase_frame(sector) == <<0, ToChar(sector), CXor(0, ToChar(sector))>>

bsl_flashErase_call ==
  /\ Enter
  /\ fn' = "bsl_flashErase"
  /\ Rx' = <<>>
  /\ probes' = <<>>
  /\ \E addr \in EraseAddrs :
       /\ loc' = [NoLoc EXCEPT !.addr = U32Of(addr),
                               !.sector = flashErase_sector(U32Of(addr))]
       /\ IF ptrPort = 0
          THEN /\ Exit("port not open", 0)
               /\ UNCHANGED <<phase, Tx, lenRx>>
          ELSE /\ Tx' = CmdFrame(ERASE)
               /\ lenRx' = 1
               /\ phase' = "cmd"
               /\ Goto("send")
  /\ UNCHANGED <<callerVars, portVars, envVars>>

bsl_flashErase_send ==
  /\ fn = "bsl_flashErase"
  /\ SendStep(IF phase = "cmd" THEN "sending command failed"
              ELSE "sending sector failed")

bsl_flashErase_recv ==
  /\ pc = "recv"
  /\ fn = "bsl_flashErase"
  /\ \E a \in Arrivals :
       LET r == receive_port(lenRx, Rx, a.reply) IN
       /\ Receive(a, r)
       /\ IF phase = "cmd"
          THEN IF r.len /= lenRx THEN Fail("ACK1 timeout", 0, r)
               ELSE IF RxAt(r.Rx, 0) /= ACK THEN Fail("ACK1 failure", 0, r)
               ELSE /\ NextSend("sector", flashErase_frame(loc.sector), 1, r)
                    /\ UNCHANGED <<loc, buf>>
          ELSE IF r.len /= lenRx THEN Fail("ACK2 timeout", 0, r)
               ELSE IF RxAt(r.Rx, 0) /= ACK THEN Fail("ACK2 failure", 0, r)
               ELSE /\ Return(0)
                    /\ Rx' = r.Rx
                    /\ UNCHANGED <<fn, phase, loc, Tx, lenRx, callerVars, termios, probes>>

(***************************************************************************)
(* bsl_jumpTo                                                              *)
(***************************************************************************)
bsl_jumpTo_call ==
  /\ Enter
  /\ fn' = "bsl_jumpTo"
  /\ Rx' = <<>>
  /\ probes' = <<>>
  /\ \E addr \in JumpAddrs :
       /\ loc' = [NoLoc EXCEPT !.addr = U32Of(addr)]
       /\ IF ptrPort = 0
          THEN /\ Exit("port not open", 0)
               /\ UNCHANGED <<phase, Tx, lenRx>>
          ELSE /\ Tx' = CmdFrame(GO)
               /\ lenRx' = 1
               /\ phase' = "cmd"
               /\ Goto("send")
  /\ UNCHANGED <<callerVars, portVars, envVars>>

bsl_jumpTo_send ==
  /\ fn = "bsl_jumpTo"
  /\ SendStep(IF phase = "cmd" THEN "sending command failed"
              ELSE "sending address failed")

bsl_jumpTo_recv ==
  /\ pc = "recv"
  /\ fn = "bsl_jumpTo"
  /\ \E a \in Arrivals :
       LET r == receive_port(lenRx, Rx, a.reply) IN
       /\ Receive(a, r)
       /\ IF phase = "cmd"
          THEN IF r.len /= lenRx THEN Fail("ACK1 timeout", 0, r)
               ELSE IF RxAt(r.Rx, 0) /= ACK THEN Fail("ACK1 failure", 0, r)
               ELSE /\ NextSend("addr", jumpTo_addr(loc.addr), 1, r)
                    /\ UNCHANGED <<loc, buf>>
          ELSE IF r.len /= lenRx THEN Fail("ACK2 timeout", 0, r)
               ELSE IF RxAt(r.Rx, 0) /= ACK THEN Fail("ACK2 failure", 0, r)
               ELSE /\ Return(0)
                    /\ Rx' = r.Rx
                    /\ UNCHANGED <<fn, phase, loc, Tx, lenRx, callerVars, termios, probes>>

(***************************************************************************)
(* The caller goes on after a function returned.                           *)
(***************************************************************************)
caller_next ==
  /\ pc = "done"
  /\ calls < MaxCalls
  /\ pc' = "idle"
  /\ hist' = [fn |-> fn, ret |-> ret, addrStart |-> loc.addrStart,
              numBytes |-> loc.numBytes, buf |-> buf, mem0 |-> mem0]
  /\ UNCHANGED <<fn, phase, loc, Tx, lenRx, Rx, ret, err, callerVars, portVars,
                 envVars, wire, probes, timeout0, mem0, calls, osVars>>

(***************************************************************************)
(* Specification.                                                          *)
(***************************************************************************)
\* everything but the port's settings
InitRest ==
  /\ pc = "idle"
  /\ fn = ""
  /\ phase = ""
  /\ loc = NoLoc
  /\ Tx = <<>>
  /\ lenRx = 0
  /\ Rx = <<>>
  /\ ret = 0
  /\ err = NoErr
  /\ buf = <<>>
  /\ flashsize = NotWritten
  /\ vers = NotWritten
  /\ ptrPort \in {0, 3}
  /\ inbuf = <<>>
  /\ \E p \in TargetProfiles :
       tgt = [st |-> "idle", cmd |-> 0, addr |-> 0, synced |-> FALSE,
              flash |-> p.flash, ver |-> p.ver]
  /\ mem = <<>>
  /\ noise = MaxNoise
  /\ line \in {"arbitrary", "faithful"}
  /\ wire = <<>>
  /\ probes = <<>>
  /\ timeout0 = 0
  /\ mem0 = <<>>
  /\ hist = NoHist
  /\ calls = 0
  /\ modem = {}
  /\ os = <<>>

Init ==
  /\ InitRest
  /\ \E t \in InitTimeouts : termios = set_timeout(InitTermios, t)

Next ==
  \/ bsl_sync_call
  \/ bsl_sync_send
  \/ bsl_sync_recv
  \/ bsl_memCheck_call
  \/ bsl_memCheck_send
  \/ bsl_memCheck_recv
  \/ bsl_getInfo_call
  \/ bsl_getInfo_send
  \/ bsl_getInfo_recv
  \/ bsl_memRead_call
  \/ bsl_memRead_send
  \/ bsl_memRead_recv
  \/ bsl_memWrite_call
  \/ bsl_memWrite_send
  \/ bsl_memWrite_recv
  \/ bsl_flashErase_call
  \/ bsl_flashErase_send
  \/ bsl_flashErase_recv
  \/ bsl_jumpTo_call
  \/ bsl_jumpTo_send
  \/ bsl_jumpTo_recv

Spec == Init /\ [][Next]_vars

\* Read and write calls in sequence against a target that follows the
\* protocol, over an open port.
InitRW ==
  /\ Init
  /\ ptrPort /= 0
  /\ line = "faithful"

NextRW ==
  \/ bsl_memRead_call
  \/ bsl_memRead_send
  \/ bsl_memRead_recv
  \/ bsl_memWrite_call
  \/ bsl_memWrite_send
  \/ bsl_memWrite_recv
  \/ caller_next

SpecRW == InitRW /\ [][NextRW]_vars

(***************************************************************************)
(* The transport functions, called by the caller itself.                   *)
(***************************************************************************)
MaxPortCalls == 2
MaxSched == 2

\* the arguments the caller passes
Attrs ==
  {[baudrate |-> 115200, timeout |-> 1000, numBits |-> 8, parity |-> 0,
    numStop |-> 1, RTS |-> 0, DTR |-> 0],
   [baudrate |-> 9600, timeout |-> 1000, numBits |-> 7, parity |-> 0,
    numStop |-> 2, RTS |-> 1, DTR |-> 1],
   [baudrate |-> 19200, timeout |-> 250, numBits |-> 7, parity |-> 1,
    numStop |-> 2, RTS |-> 1, DTR |-> 1],
   [baudrate |-> 57600, timeout |-> 2000, numBits |-> 7, parity |-> 2,
    numStop |-> 3, RTS |-> 1, DTR |-> 1],
   [baudrate |-> 4800, timeout |-> 30000, numBits |-> 8, parity |-> 0,
    numStop |-> 2, RTS |-> 1, DTR |-> 0],
   [baudrate |-> 38400, timeout |-> 1000, numBits |-> 7, parity |-> 0,
    numStop |-> 1, RTS |-> 0, DTR |-> 1]}
\* 50 ms is less than a tenth of a second, 25600 ms is 256 tenths
PortTimeouts == {0, 50, 1000, 25600}
PortFrames == {<<ToChar(SYNCH)>>, CmdFrame(GET)}
Gaps == {0, 600, 1000}
\* a byte that is there when the call is made is in inbuf, so the first
\* byte on its way takes some time
Scheds ==
  {s \in UNION {[1..k -> [gap : Gaps, b : {ACK}]] : k \in 0..MaxSched} :
     s = <<>> \/ s[1].gap > 0}

\* descriptor 0 is the process's standard input: tcgetattr fails on it
\* unless it is a terminal, whose settings are not the port's
tcgetattr(fd) ==
  IF fd /= 0 THEN {[ok |-> TRUE, tio |-> termios]}
  ELSE {[ok |-> FALSE, tio |-> InitTermios]}
       \cup {[ok |-> TRUE, tio |-> set_timeout(InitTermios, t)] : t \in InitTimeouts}

OsCall(op, fd, t) == [call |-> calls + 1, op |-> op, fd |-> fd, t |-> t]

\* a call of a transport function from the idle caller
PortEnter(name) ==
  /\ pc = "idle"
  /\ calls < MaxPortCalls
  /\ calls' = calls + 1
  /\ fn' = name
  /\ hist' = [NoHist EXCEPT !.fn = fn, !.ret = ret, !.attr = loc.attr,
                            !.ptrPort = ptrPort, !.inbuf = inbuf]
  /\ wire' = <<>>
  /\ timeout0' = PortTimeout(termios)
  /\ mem0' = mem
  /\ UNCHANGED <<phase, Tx, lenRx, Rx, callerVars, envVars, probes>>

\* the function returns to the caller
PortDone(v, l, log) ==
  /\ pc' = "idle"
  /\ ret' = v
  /\ err' = err
  /\ loc' = l
  /\ os' = os \o log

\* Exit(1, ..) in a transport function
PortExit(msg, l, log) ==
  /\ pc' = "exit"
  /\ ret' = ret
  /\ err' = [msg |-> msg, val |-> 0]
  /\ loc' = l
  /\ os' = os \o log

close_port_call ==
  /\ PortEnter("close_port")
  /\ LET c == close_port(ptrPort)
         log == [i \in 1..Len(c.closed) |-> OsCall("close", c.closed[i], 0)]
     IN /\ ptrPort' = c.fpCom
        /\ \/ PortDone(0, NoLoc, log)
           \/ /\ c.closed /= <<>>
              /\ line = "arbitrary"
              /\ ptrPort' = 0
              /\ PortExit("close port failed", NoLoc, log)
  /\ UNCHANGED <<termios, inbuf, modem>>

send_port_call ==
  /\ PortEnter("send_port")
  /\ \E T \in PortFrames : \E w \in send_port(T) :
       PortDone(w.ret, [NoLoc EXCEPT !.n = Len(T)],
                <<OsCall("write", ptrPort, 0)>>)
  /\ UNCHANGED <<portVars, modem>>

receive_port_call ==
  /\ PortEnter("receive_port")
  /\ \E n \in 1..MaxSched : \E sched \in Scheds : \E g \in tcgetattr(ptrPort) :
       LET l == [NoLoc EXCEPT !.n = n]
           stream == [i \in 1..Len(inbuf) |-> [gap |-> 0, b |-> inbuf[i]]] \o sched
           r == receive_port_loop(PortTimeout(g.tio), n, stream)
           taken == Min(Len(r.got), Len(inbuf))
       IN IF ~g.ok
          THEN /\ PortExit("get port attributes failed", l,
                           <<OsCall("tcgetattr", ptrPort, 0)>>)
               /\ inbuf' = inbuf
          ELSE /\ PortDone(Len(r.got), l,
                           <<OsCall("tcgetattr", ptrPort, 0)>>
                           \o [i \in 1..Len(r.waits) |->
                                 OsCall("select", ptrPort, r.waits[i])])
               /\ inbuf' = SubSeq(inbuf, taken + 1, Len(inbuf))
  /\ UNCHANGED <<ptrPort, termios, modem>>

flush_port_call ==
  /\ PortEnter("flush_port")
  /\ PortDone(0, NoLoc, <<OsCall("tcflush", ptrPort, 0)>>)
  /\ inbuf' = IF ptrPort = 0 THEN inbuf ELSE flush_port
  /\ UNCHANGED <<ptrPort, termios, modem>>

set_timeout_call ==
  /\ PortEnter("set_timeout")
  /\ \E t \in PortTimeouts : \E g \in tcgetattr(ptrPort) :
       LET l == [NoLoc EXCEPT !.attr = [NoAttr EXCEPT !.timeout = t]] IN
       IF ~g.ok
       THEN /\ PortExit("get port attributes failed", l,
                        <<OsCall("tcgetattr", ptrPort, 0)>>)
            /\ termios' = termios
       ELSE /\ PortDone(0, l, <<OsCall("tcgetattr", ptrPort, 0),
                                OsCall("tcsetattr", ptrPort, 0)>>)
            /\ termios' = IF ptrPort = 0 THEN termios ELSE set_timeout(g.tio, t)
  /\ UNCHANGED <<ptrPort, inbuf, modem>>

set_baudrate_call ==
  /\ PortEnter("set_baudrate")
  /\ \E b \in Bauds : \E g \in tcgetattr(ptrPort) :
       LET l == [NoLoc EXCEPT !.attr = [NoAttr EXCEPT !.baudrate = b]] IN
       IF ~g.ok
       THEN /\ PortExit("get port attributes failed", l,
                        <<OsCall("tcgetattr", ptrPort, 0)>>)
            /\ termios' = termios
       ELSE /\ PortDone(0, l, <<OsCall("tcgetattr", ptrPort, 0),
                                OsCall("tcsetattr", ptrPort, 0)>>)
            /\ termios' = IF ptrPort = 0 THEN termios ELSE set_baudrate(g.tio, b)
  /\ UNCHANGED <<ptrPort, inbuf, modem>>

get_port_attribute_call ==
  /\ PortEnter("get_port_attribute")
  /\ \E g \in tcgetattr(ptrPort) :
       IF ~g.ok
       THEN PortExit("get port attributes failed", NoLoc,
                     <<OsCall("tcgetattr", ptrPort, 0)>>)
       ELSE PortDone(get_port_attribute(g.tio, IF ptrPort = 0 THEN {} ELSE modem),
                     NoLoc, <<OsCall("tcgetattr", ptrPort, 0),
                              OsCall("ioctl", ptrPort, 0)>>)
  /\ UNCHANGED <<portVars, modem>>

set_port_attribute_call ==
  /\ PortEnter("set_port_attribute")
  /\ \E a \in Attrs : \E g \in tcgetattr(ptrPort) :
       LET l == [NoLoc EXCEPT !.attr = a] IN
       IF ~g.ok
       THEN /\ PortExit("get port attributes failed", l,
                        <<OsCall("tcgetattr", ptrPort, 0)>>)
            /\ UNCHANGED <<termios, modem>>
       ELSE IF ptrPort = 0
       THEN \* a terminal that is no serial line has no modem lines to set
            /\ PortExit("cannot set RTS status", l,
                        <<OsCall("tcgetattr", ptrPort, 0),
                          OsCall("tcsetattr", ptrPort, 0),
                          OsCall("ioctl", ptrPort, 0)>>)
            /\ UNCHANGED <<termios, modem>>
       ELSE /\ PortDone(0, l, <<OsCall("tcgetattr", ptrPort, 0),
                                OsCall("tcsetattr", ptrPort, 0),
                                OsCall("ioctl", ptrPort, 0)>>)
            /\ termios' = set_port_attribute(g.tio, a)
            /\ modem' = set_modem(modem, a.RTS, a.DTR)
  /\ UNCHANGED <<ptrPort, inbuf>>

\* a bootloader function is called with the handle close_port has cleared
closed_call ==
  /\ ptrPort = 0
  /\ \/ bsl_sync_call
     \/ bsl_getInfo_call
     \/ bsl_memCheck_call
     \/ bsl_memRead_call
     \/ bsl_memWrite_call
     \/ bsl_flashErase_call
     \/ bsl_jumpTo_call

NextPort ==
  \/ close_port_call
  \/ send_port_call
  \/ receive_port_call
  \/ flush_port_call
  \/ set_timeout_call
  \/ set_baudrate_call
  \/ get_port_attribute_call
  \/ set_port_attribute_call
  \/ closed_call

\* the port and the line as in Init; the target takes no part
InitPort ==
  /\ Init
  /\ tgt.flash = 8

SpecPort == InitPort /\ [][NextPort]_vars

\* close_port in sequence with itself and with the calls that use the
\* handle or the settings
NextClose ==
  \/ close_port_call
  \/ send_port_call
  \/ flush_port_call
  \/ set_timeout_call
  \/ get_port_attribute_call

SpecClose == InitPort /\ [][NextClose]_vars

\* bytes arrive at the open port while the caller does something else
line_arrive ==
  /\ pc = "idle"
  /\ ptrPort /= 0
  /\ calls < MaxPortCalls
  /\ Len(inbuf) < MaxSched
  /\ inbuf' = Append(inbuf, ACK)
  /\ UNCHANGED <<hostVars, callerVars, ptrPort, termios, envVars, histVars,
                 osVars>>

\* init_port(port, ..): the port is opened and set up; the settings the
\* line had are in termios
init_port_call ==
  /\ pc = "idle"
  /\ ptrPort = 0
  /\ fn = ""
  /\ fn' = "init_port"
  /\ hist' = [NoHist EXCEPT !.fn = fn, !.ret = ret, !.attr = loc.attr,
                            !.ptrPort = ptrPort, !.inbuf = inbuf]
  /\ wire' = <<>>
  /\ timeout0' = PortTimeout(termios)
  /\ mem0' = mem
  /\ \E a \in Attrs :
       LET l == [NoLoc EXCEPT !.attr = a] IN
       \/ /\ ptrPort' = 3
          /\ termios' = init_port(termios, a)
          /\ modem' = set_modem(modem, a.RTS, a.DTR)
          /\ PortDone(3, l, <<OsCall("open", 3, 0), OsCall("tcgetattr", 3, 0),
                               OsCall("tcsetattr", 3, 0), OsCall("ioctl", 3, 0)>>)
       \/ /\ line = "arbitrary"
          /\ PortExit("open port failed", l, <<OsCall("open", 0, 0)>>)
          /\ UNCHANGED <<ptrPort, termios, modem>>
  /\ UNCHANGED <<phase, Tx, lenRx, Rx, callerVars, inbuf, envVars, probes, calls>>

\* the settings of a port from init_port on
NextAttr ==
  \/ init_port_call
  \/ set_port_attribute_call
  \/ set_baudrate_call
  \/ set_timeout_call
  \/ get_port_attribute_call

\* a line with the settings the OS gave it, not opened yet
InitAttr ==
  /\ InitRest
  /\ ptrPort = 0
  /\ tgt.flash = 8
  /\ termios \in OsTermios

SpecAttr == InitAttr /\ [][NextAttr]_vars

\* receive_port on a line that delivers bytes now and then, with the
\* timeout set before
NextWait ==
  \/ line_arrive
  \/ receive_port_call
  \/ set_timeout_call

\* the open port on a line that loses and adds nothing
InitWait == InitPort /\ line = "faithful" /\ ptrPort /= 0

SpecWait == InitWait /\ [][NextWait]_vars

(***************************************************************************)
(* receive_port, one select or read at a time.                             *)
(***************************************************************************)
\* return(v) of receive_port; `why` is what ended the loop
receive_return(v, why) ==
  /\ pc' = "idle"
  /\ ret' = v
  /\ phase' = why
  /\ UNCHANGED <<loc, Rx, inbuf>>

\* the call up to the first test of the loop condition
receive_port_enter ==
  /\ pc = "idle"
  /\ ptrPort /= 0
  /\ calls < MaxPortCalls
  /\ calls' = calls + 1
  /\ fn' = "receive_port"
  /\ \E n \in 1..MaxSched :
       /\ lenRx' = n
       /\ loc' = [NoLoc EXCEPT !.n = n, !.remaining = n]
  /\ Rx' = <<>>
  /\ phase' = ""
  /\ pc' = "select"
  /\ timeout0' = PortTimeout(termios)
  /\ hist' = [NoHist EXCEPT !.fn = fn, !.ret = ret, !.ptrPort = ptrPort,
                            !.inbuf = inbuf]
  /\ UNCHANGED <<Tx, ret, err, callerVars, portVars, envVars, wire, probes,
                 mem0, osVars>>

\* while (remaining) { .. select(fpCom + 1, &fdr, NULL, NULL, &tv) .. }
receive_port_select ==
  /\ pc = "select"
  /\ IF loc.remaining = 0
     THEN receive_return(lenRx, "complete")
     ELSE \/ \* data is waiting
             /\ inbuf /= <<>>
             /\ pc' = "read"
             /\ UNCHANGED <<loc, Rx, inbuf, ret, phase>>
          \/ \* a byte comes in before the wait is over
             /\ inbuf = <<>>
             /\ timeout0 > 0
             /\ inbuf' = <<ACK>>
             /\ pc' = "read"
             /\ UNCHANGED <<loc, Rx, ret, phase>>
          \/ \* the wait is over and nothing came
             /\ inbuf = <<>>
             /\ receive_return(lenRx - loc.remaining, "timeout")
          \/ \* select fails (EINTR, EBADF)
             /\ line = "arbitrary"
             /\ receive_return(lenRx - loc.remaining, "error")
          \/ \* the line has hung up: the descriptor is readable at end of
             \* file
             /\ line = "arbitrary"
             /\ inbuf = <<>>
             /\ pc' = "read"
             /\ UNCHANGED <<loc, Rx, inbuf, ret, phase>>
  /\ UNCHANGED <<fn, Tx, lenRx, err, callerVars, ptrPort, termios, envVars,
                 histVars, osVars>>

\* got = read(fpCom, dest, remaining) and what follows it
receive_port_read ==
  /\ pc = "read"
  /\ IF inbuf /= <<>>
     THEN \E got \in 1..Min(loc.remaining, Len(inbuf)) :
            /\ Rx' = Rx \o Chars(SubSeq(inbuf, 1, got))
            /\ inbuf' = SubSeq(inbuf, got + 1, Len(inbuf))
            /\ loc' = [loc EXCEPT !.remaining = loc.remaining - got]
            /\ pc' = "select"
            /\ UNCHANGED <<ret, phase>>
     ELSE \/ \* got = 0 at end of file, or got = -1 with EAGAIN
             /\ pc' = "select"
             /\ UNCHANGED <<loc, Rx, inbuf, ret, phase>>
          \/ \* got = -1 with another errno
             /\ receive_return(lenRx - loc.remaining, "error")
  /\ UNCHANGED <<fn, Tx, lenRx, err, callerVars, ptrPort, termios, envVars,
                 histVars, osVars>>

NextRecv ==
  \/ receive_port_enter
  \/ receive_port_select
  \/ receive_port_read
  \/ line_arrive
  \/ set_timeout_call

\* the process is scheduled as long as it can take a step
SpecRecv == InitPort /\ [][NextRecv]_vars /\ WF_vars(NextRecv)

(***************************************************************************)
(* Properties.  They read the history variables: wire is the sequence of   *)
(* send_port calls (d = "tx", n = lenTx, b = the bytes that left) and      *)
(* receive_port calls (d = "rx", n = lenRx, b = the bytes received) of the *)
(* running function.                                                       *)
(***************************************************************************)
Ended == pc \in {"done", "exit"}

\* the first m rounds of bsl_sync each sent one SYNCH and received nothing
SilentRounds(m) ==
  /\ Len(wire) >= 2 * m
  /\ \A i \in 1..m : /\ wire[2 * i - 1] = [d |-> "tx", n |-> 1, b |-> <<SYNCH>>]
                     /\ wire[2 * i] = [d |-> "rx", n |-> 1, b |-> <<>>]

\* round k of bsl_sync sent one SYNCH and received the single byte x
RoundGot(k, x) ==
  /\ Len(wire) >= 2 * k
  /\ wire[2 * k - 1] = [d |-> "tx", n |-> 1, b |-> <<SYNCH>>]
  /\ wire[2 * k] = [d |-> "rx", n |-> 1, b |-> <<x>>]

\* C1: bsl_sync against a target that is silent in rounds 1..k-1 and
\* answers one ACK in round k (k in 1..15) returns success and has sent
\* exactly k SYNCH bytes; against a target that never answers it does not
\* end before 15 SYNCH bytes are sent, and then ends in the "no response"
\* error (SyncFailed), never in success.
C1_SyncRounds ==
  fn = "bsl_sync" =>
    /\ \A k \in 1..15 :
         (SilentRounds(k - 1) /\ RoundGot(k, ACK)) =>
           (pc = "done" /\ ret = 0 /\ Len(wire) = 2 * k)
    /\ \A m \in 1..15 :
         (SilentRounds(m) /\ Len(wire) = 2 * m) =>
           IF m < 15 THEN pc = "send"
           ELSE pc = "exit" /\ err.msg = "no response"
    /\ Len(wire) <= 30

C1_Witness ==
  /\ fn = "bsl_sync"
  /\ SilentRounds(14)
  /\ RoundGot(15, ACK)
  /\ pc = "done"
  /\ ret = 0

\* C2: in bsl_sync a round that receives exactly the one byte NACK ends
\* the call with success, as a round that receives ACK does, in whichever
\* round it occurs, and nothing is sent after it.
C2_SyncNack ==
  fn = "bsl_sync" =>
    \A i \in 1..Len(wire) :
      (wire[i].d = "rx" /\ wire[i].b \in {<<NACK>>, <<ACK>>}) =>
        (i = Len(wire) /\ pc = "done" /\ ret = 0)

C2_Witness ==
  /\ fn = "bsl_sync"
  /\ SilentRounds(3)
  /\ RoundGot(4, NACK)
  /\ Len(wire) = 8
  /\ pc = "done"
  /\ ret = 0

\* C3: bsl_getInfo checks 0x047FFF, 0x027FFF, 0x00FFFF, 0x009FFF in this
\* order, makes no check after the first one that returned true, and
\* reports the flash size 256, 128, 32 or 8 of that first successful check.
C3_ProbeOrder ==
  LET order == <<294911, 163839, 65535, 40959>>
      sizes == <<256, 128, 32, 8>>
      n == Len(probes)
  IN TopFn = "bsl_getInfo" =>
       /\ n <= 4
       /\ \A i \in 1..n : probes[i].addr = order[i]
       /\ \A i \in 1..(n - 1) : probes[i].res = 0
       /\ (fn = "bsl_getInfo" /\ phase = "get") =>
            (n >= 1 /\ probes[n].res = 1 /\ flashsize = sizes[n])
       /\ (pc = "done") => (fn = "bsl_getInfo" /\ phase = "get" /\ ret = 0)

C3_Witness ==
  /\ fn = "bsl_getInfo"
  /\ pc = "done"
  /\ probes = <<[addr |-> 294911, res |-> 0], [addr |-> 163839, res |-> 1]>>
  /\ flashsize = 128

\* C4: after bsl_getInfo has returned successfully the read timeout of the
\* port is the one that was in effect before the call.
C4_TimeoutRestored ==
  (fn = "bsl_getInfo" /\ pc = "done" /\ ret = 0) => PortTimeout(termios) = timeout0

\* the bytes of the address frame of address a (below 2^31)
ExpectAddr(a) ==
  LET f == <<(a \div 16777216) % 256, (a \div 65536) % 256, (a \div 256) % 256, a % 256>>
  IN f \o <<XorAll(f)>>

Sent(f) == [d |-> "tx", n |-> Len(f), b |-> f]
GotAck == [d |-> "rx", n |-> 1, b |-> <<ACK>>]

\* the call's range lies below 0x1000000
InRange ==
  /\ loc.addrStart.h < 256
  /\ U32Nat(loc.addrStart) + loc.numBytes <= 16777216

\* a word of memory m at the 32-bit address x, for the addresses the target has
SameAt(m1, m2, x) ==
  x.h < 256 => MemAt(m1, U32Nat(x)) = MemAt(m2, U32Nat(x))

\* C5: bsl_memRead(start, n, buf) followed by bsl_memWrite(start, n, buf)
\* leaves the target memory in [start, start+n) as it was, and
\* bsl_memWrite(start, n, data) followed by bsl_memRead(start, n, out)
\* gives out = data, for every start address and length.
C5_RoundTrip ==
  (pc = "done" /\ ret = 0 /\ hist.ret = 0
   /\ hist.addrStart = loc.addrStart /\ hist.numBytes = loc.numBytes) =>
    /\ (hist.fn = "bsl_memRead" /\ fn = "bsl_memWrite" /\ buf = hist.buf) =>
         \A k \in 0..(loc.numBytes - 1) :
           SameAt(mem, hist.mem0, U32Add(loc.addrStart, U32Of(k)))
    /\ (hist.fn = "bsl_memWrite" /\ fn = "bsl_memRead") => buf = hist.buf

\* C6: a successful bsl_memRead(start, n, out) with start+n <= 0x1000000
\* makes exactly ceil(n/256) READ transactions; transaction j is for
\* address start+256*j and size s = min(256, n-256*j), and consists of:
\* send 11 EE, receive ACK; send the address frame, receive ACK; send
\* [s-1, (s-1) XOR FF], receive s+1 bytes that start with ACK.
C6_ReadTransactions ==
  (fn = "bsl_memRead" /\ pc = "done" /\ ret = 0 /\ InRange) =>
    LET start == U32Nat(loc.addrStart)
        n == loc.numBytes
        T == (n + 255) \div 256
    IN /\ Len(wire) = 6 * T
       /\ \A j \in 0..(T - 1) :
            LET s == Min(256, n - 256 * j) IN
            /\ wire[6 * j + 1] = Sent(<<17, 238>>)
            /\ wire[6 * j + 2] = GotAck
            /\ wire[6 * j + 3] = Sent(ExpectAddr(start + 256 * j))
            /\ wire[6 * j + 4] = GotAck
            /\ wire[6 * j + 5] = Sent(<<s - 1, 255 - (s - 1)>>)
            /\ wire[6 * j + 6].d = "rx"
            /\ wire[6 * j + 6].n = s + 1
            /\ Len(wire[6 * j + 6].b) = s + 1
            /\ wire[6 * j + 6].b[1] = ACK
       /\ (start = 32768 /\ n = 3) =>
            <<wire[1].b, wire[3].b, wire[5].b>> =
              << <<17, 238>>, <<0, 0, 128, 0, 128>>, <<2, 253>> >>

C6_Witness ==
  /\ fn = "bsl_memRead"
  /\ pc = "done"
  /\ ret = 0
  /\ loc.addrStart = U32Of(33023)
  /\ loc.numBytes = 257
  /\ Len(wire) = 12

\* C7: after a successful bsl_memRead(start, n, out), out[k] is for every
\* k in 0..n-1 the data byte received for address start+k: byte k mod 256
\* after the ACK of the response of chunk k div 256.
C7_ReadData ==
  (fn = "bsl_memRead" /\ pc = "done" /\ ret = 0) =>
    /\ Len(buf) = loc.numBytes
    /\ \A k \in 0..(loc.numBytes - 1) :
         LET e == 6 * (k \div 256) + 6 IN
         /\ Len(wire) >= e
         /\ wire[e].d = "rx"
         /\ Len(wire[e].b) >= (k % 256) + 2
         /\ buf[k + 1] = ToChar(wire[e].b[(k % 256) + 2])

\* C8: a successful bsl_memWrite(start, n, data) with start+n <= 0x1000000
\* makes exactly ceil(n/128) WRITE transactions; transaction j is for
\* address start+128*j, carries the s = min(128, n-128*j) bytes of data
\* from offset 128*j in order, and consists of: send 31 CE, receive ACK;
\* send the address frame, receive ACK; send [s-1, data, checksum],
\* receive ACK.
C8_WriteTransactions ==
  (fn = "bsl_memWrite" /\ pc = "done" /\ ret = 0 /\ InRange) =>
    LET start == U32Nat(loc.addrStart)
        n == loc.numBytes
        T == (n + 127) \div 128
        data == [i \in 1..Len(buf) |-> buf[i] % 256]
    IN /\ Len(wire) = 6 * T
       /\ Len(data) = n
       /\ \A j \in 0..(T - 1) :
            LET s == Min(128, n - 128 * j)
                body == <<s - 1>> \o SubSeq(data, 128 * j + 1, 128 * j + s)
            IN /\ wire[6 * j + 1] = Sent(<<49, 206>>)
               /\ wire[6 * j + 2] = GotAck
               /\ wire[6 * j + 3] = Sent(ExpectAddr(start + 128 * j))
               /\ wire[6 * j + 4] = GotAck
               /\ wire[6 * j + 5] = Sent(body \o <<XorAll(body)>>)
               /\ wire[6 * j + 5].n = s + 2
               /\ wire[6 * j + 6] = GotAck
       /\ (start = 32768 /\ n = 2 /\ data = <<18, 52>>) =>
            <<wire[1].b, wire[3].b, wire[5].b>> =
              << <<49, 206>>, <<0, 0, 128, 0, 128>>, <<1, 18, 52, 39>> >>

C8_Witness ==
  /\ fn = "bsl_memWrite"
  /\ pc = "done"
  /\ ret = 0
  /\ loc.addrStart = U32Of(33023)
  /\ loc.numBytes = 257
  /\ Len(wire) = 18

\* what has left of frame f when e is the send_port call that sent it
SentOf(e, f) ==
  /\ e.d = "tx"
  /\ e.n = Len(f)
  /\ e.b = SubSeq(f, 1, Len(e.b))

\* C9: bsl_flashErase(addr) sends 43 BC and waits for one byte; only if
\* that byte is ACK it sends [00, sector, 00 XOR sector] with
\* sector = ((addr - 0x8000) / 1024) truncated to 8 bits; it returns
\* success only after a second ACK.
C9_Erase ==
  fn = "bsl_flashErase" =>
    LET sector == ((U32Nat(loc.addr) - 32768) \div 1024) % 256 IN
    /\ Len(wire) <= 4
    /\ Len(wire) >= 1 => SentOf(wire[1], <<67, 188>>)
    /\ Len(wire) >= 2 => (wire[2].d = "rx" /\ wire[2].n = 1)
    /\ Len(wire) >= 3 =>
         /\ wire[1].b = <<67, 188>>
         /\ wire[2].b = <<ACK>>
         /\ SentOf(wire[3], <<0, sector, sector>>)
    /\ Len(wire) >= 4 => (wire[4].d = "rx" /\ wire[4].n = 1)
    /\ pc = "done" =>
         /\ ret = 0
         /\ Len(wire) = 4
         /\ wire[3].b = <<0, sector, sector>>
         /\ wire[4].b = <<ACK>>
    /\ (loc.addr = U32Of(35840) /\ Len(wire) = 4) =>
         (wire[1].b = <<67, 188>> /\ wire[3].b = <<0, 3, 3>>)

C9_Witness ==
  /\ fn = "bsl_flashErase"
  /\ pc = "done"
  /\ loc.addr = U32Of(294912)
  /\ wire[3].b = <<0, 0, 0>>

\* C10: bsl_jumpTo(addr) sends 21 DE and waits for one byte; only if that
\* byte is ACK it sends the address frame of addr; it returns success only
\* after a second ACK, and sends nothing after it.
C10_Jump ==
  fn = "bsl_jumpTo" =>
    /\ Len(wire) <= 4
    /\ Len(wire) >= 1 => SentOf(wire[1], <<33, 222>>)
    /\ Len(wire) >= 2 => (wire[2].d = "rx" /\ wire[2].n = 1)
    /\ Len(wire) >= 3 =>
         /\ wire[1].b = <<33, 222>>
         /\ wire[2].b = <<ACK>>
         /\ SentOf(wire[3], ExpectAddr(U32Nat(loc.addr)))
    /\ Len(wire) >= 4 => (wire[4].d = "rx" /\ wire[4].n = 1)
    /\ pc = "done" =>
         /\ ret = 0
         /\ Len(wire) = 4
         /\ wire[3].b = ExpectAddr(U32Nat(loc.addr))
         /\ wire[4].b = <<ACK>>

C10_Witness ==
  /\ fn = "bsl_jumpTo"
  /\ pc = "done"
  /\ loc.addr = U32Of(32768)
  /\ wire[3].b = <<0, 0, 128, 0, 128>>
  /\ wire[4].b = <<ACK>>

\* a bsl_memCheck call made by the caller itself
OwnCheck == fn = "bsl_memCheck" /\ loc.caller = ""

\* C11 as stated: bsl_memCheck sends at most two frames (READ command,
\* address) and returns true as soon as the address frame is answered with
\* ACK; it never sends a length frame and never receives data.
C11_TwoFrames ==
  OwnCheck =>
    /\ Len(wire) <= 4
    /\ (Len(wire) = 4 /\ wire[4] = GotAck) => (pc = "done" /\ ret = 1)

\* C11 (amended): after the address frame is answered with ACK bsl_memCheck
\* sends a third frame, the range frame 00 FF, and asks for two bytes; it
\* returns true only after two bytes arrived of which the first is ACK; it
\* sends at most three frames.
C11_ThreeFrames ==
  OwnCheck =>
    /\ Len(wire) <= 6
    /\ Len(wire) >= 1 => SentOf(wire[1], <<17, 238>>)
    /\ Len(wire) >= 3 => SentOf(wire[3], ExpectAddr(U32Nat(loc.addr)))
    /\ (Len(wire) = 4 /\ wire[4] = GotAck) => (pc = "send" /\ Bytes(Tx) = <<0, 255>>)
    /\ Len(wire) >= 5 => (wire[4] = GotAck /\ SentOf(wire[5], <<0, 255>>))
    /\ Len(wire) >= 6 => (wire[6].d = "rx" /\ wire[6].n = 2)
    /\ (pc = "done" /\ ret = 1) =>
         /\ Len(wire) = 6
         /\ wire[5] = Sent(<<0, 255>>)
         /\ Len(wire[6].b) = 2
         /\ wire[6].b[1] = ACK
    /\ (Len(wire) = 6 /\ Len(wire[6].b) = 2 /\ wire[6].b[1] = ACK) =>
         (pc = "done" /\ ret = 1)

C11_Witness ==
  /\ OwnCheck
  /\ pc = "done"
  /\ ret = 1
  /\ loc.addr = U32Of(40959)
  /\ Len(wire) = 6
  /\ wire[5] = Sent(<<0, 255>>)
  /\ Len(wire[6].b) = 2

\* C12: in the address phase of bsl_memCheck a single received byte other
\* than ACK makes it return false without an error, while no byte within
\* the timeout is an error (ACK2 timeout); in the command phase a byte
\* other than ACK is an error (ACK1 failure), not the result false.
C12_CheckRefused ==
  OwnCheck =>
    /\ (Len(wire) >= 4 /\ Len(wire[4].b) = 1 /\ wire[4] /= GotAck) =>
         (pc = "done" /\ ret = 0 /\ err = NoErr /\ Len(wire) = 4)
    /\ (Len(wire) >= 4 /\ wire[4].b = <<>>) =>
         (pc = "exit" /\ err.msg = "ACK2 timeout" /\ Len(wire) = 4)
    /\ (Len(wire) >= 2 /\ Len(wire[2].b) = 1 /\ wire[2] /= GotAck) =>
         (pc = "exit" /\ err.msg = "ACK1 failure" /\ Len(wire) = 2)
    /\ (pc = "done" /\ ret = 0) =>
         (Len(wire) = 4 /\ Len(wire[4].b) = 1 /\ wire[4] /= GotAck)

C12_Witness ==
  /\ OwnCheck
  /\ pc = "done"
  /\ ret = 0
  /\ Len(wire) = 4
  /\ wire[4].b = <<249>>

\* bsl_getInfo is in its GET exchange
InGet == fn = "bsl_getInfo" /\ phase = "get"

\* a complete and correct GET response
GoodGet(b) ==
  /\ Len(b) = 9
  /\ b[1] = ACK
  /\ b[9] = ACK
  /\ <<b[4], b[5], b[6], b[7], b[8]>> = <<0, 17, 33, 49, 67>>

\* C13: after a density check succeeded bsl_getInfo sends 00 FF and asks
\* for 9 bytes; it returns success, with the version set to byte 2 of the
\* response, only if 9 bytes arrived, bytes 0 and 8 are ACK and bytes 3..7
\* are 00 11 21 31 43; any other response ends in an error and the version
\* is not written.
C13_GetExchange ==
  InGet =>
    LET n == Len(wire) IN
    /\ probes[Len(probes)].res = 1
    /\ pc = "send" => (Bytes(Tx) = <<0, 255>> /\ lenRx = 9)
    /\ pc = "recv" => (wire[n] = Sent(<<0, 255>>) /\ lenRx = 9)
    /\ Ended => (wire[n].n = IF wire[n].d = "rx" THEN 9 ELSE 2)
    /\ pc = "done" =>
         /\ ret = 0
         /\ wire[n].d = "rx"
         /\ GoodGet(wire[n].b)
         /\ vers = wire[n].b[3]
    /\ (Ended /\ wire[n].d = "rx" /\ GoodGet(wire[n].b)) => pc = "done"
    /\ pc /= "done" => vers = NotWritten

C13_Witness ==
  /\ InGet
  /\ pc = "done"
  /\ vers = 129
  /\ wire[Len(wire)].b = <<ACK, 6, 129, 0, 17, 33, 49, 67, ACK>>

\* all four density checks of the running bsl_getInfo returned false
AllRefused ==
  /\ Len(probes) = 4
  /\ \A i \in 1..4 : probes[i].res = 0

\* C14: if all four density checks of bsl_getInfo return false the call
\* ends with the "cannot identify device" error, no flash size is written
\* and the GET command is never sent: the frames sent are the READ command
\* and the address frame of each of the four checks.
C14_NotIdentified ==
  TopFn = "bsl_getInfo" =>
    /\ AllRefused =>
         /\ pc = "exit"
         /\ err.msg = "cannot identify device"
         /\ flashsize = NotWritten
         /\ vers = NotWritten
         /\ Len(wire) = 16
         /\ \A i \in 1..4 :
              /\ wire[4 * i - 3] = Sent(<<17, 238>>)
              /\ wire[4 * i - 1] = Sent(ExpectAddr(probes[i].addr))
    /\ err.msg = "cannot identify device" => AllRefused
    /\ flashsize /= NotWritten => probes[Len(probes)].res = 1

C14_Witness ==
  /\ fn = "bsl_getInfo"
  /\ AllRefused
  /\ pc = "exit"
  /\ err.msg = "cannot identify device"
  /\ wire[16].b = <<NACK>>

\* the first event of the exchange C15 speaks of: the GET command of
\* bsl_getInfo, the first frame of the other functions
FirstEvent == IF fn = "bsl_getInfo" THEN 4 * (Len(probes) - 1) + 7 ELSE 1

\* a send that accepted fewer bytes than asked, a receive that returned
\* fewer bytes than asked, or an ACK slot that holds another byte
Failed(e) ==
  \/ Len(e.b) < e.n
  \/ e.d = "rx" /\ e.b[1] /= ACK
  \/ fn = "bsl_getInfo" /\ e.d = "rx" /\ e.b[9] /= ACK

\* C15: in bsl_memRead, bsl_memWrite, bsl_flashErase, bsl_jumpTo and the
\* GET exchange of bsl_getInfo the first failed send, short receive or
\* ACK slot with another byte ends the operation in an error: it is the
\* last thing on the wire, nothing is sent after it.
C15_AbortOnFirst ==
  (fn \in {"bsl_memRead", "bsl_memWrite", "bsl_flashErase", "bsl_jumpTo"} \/ InGet) =>
    \A i \in FirstEvent..Len(wire) :
      Failed(wire[i]) => (i = Len(wire) /\ pc = "exit" /\ err.msg /= "")

C15_Witness ==
  /\ fn = "bsl_memWrite"
  /\ loc.numBytes = 257
  /\ pc = "exit"
  /\ err.msg = "ACK1 failure"
  /\ Len(wire) = 8
  /\ wire[8].b = <<NACK>>

\* C16: in every run of every engine function send_port and receive_port
\* calls alternate, starting with a send; every receive obtained the bytes
\* asked for or fewer (timeout); a function waits for a reply only with one
\* frame outstanding and builds or returns only with none.
C16_Alternation ==
  /\ \A i \in 1..Len(wire) :
       /\ wire[i].d = IF i % 2 = 1 THEN "tx" ELSE "rx"
       /\ Len(wire[i].b) <= wire[i].n
       /\ (wire[i].d = "tx" /\ i < Len(wire)) => Len(wire[i].b) = wire[i].n
  /\ pc = "recv" => Len(wire) % 2 = 1
  /\ pc \in {"send", "done"} => Len(wire) % 2 = 0

C16_Witness ==
  /\ fn = "bsl_getInfo"
  /\ pc = "done"
  /\ flashsize = 8
  /\ Len(wire) = 20
  /\ \A i \in 1..10 : wire[2 * i - 1].d = "tx" /\ wire[2 * i].d = "rx"

(***************************************************************************)
(* The transport functions.                                                *)
(***************************************************************************)
EngineFns ==
  {"bsl_sync", "bsl_getInfo", "bsl_memCheck", "bsl_memRead", "bsl_memWrite",
   "bsl_flashErase", "bsl_jumpTo"}

PortFns ==
  {"send_port", "receive_port", "flush_port", "set_timeout", "set_baudrate",
   "get_port_attribute", "set_port_attribute"}

\* the OS calls of the call that ran last
OwnOs == {i \in 1..Len(os) : os[i].call = calls}

NotOpen == pc = "exit" /\ err.msg = "port not open"

\* C17: after close_port(&h) every operation called with h fails with
\* "port not open" and makes no call on any OS descriptor: the bootloader
\* functions, and send_port, receive_port, flush_port, set_timeout,
\* set_baudrate, get_port_attribute and set_port_attribute.
C17_ClosedHandle ==
  /\ (fn \in EngineFns /\ ptrPort = 0) =>
       (NotOpen /\ wire = <<>> /\ OwnOs = {})
  /\ (fn \in PortFns /\ hist.fn = "close_port" /\ hist.ptrPort = 0) =>
       (NotOpen /\ OwnOs = {})

\* C18: close_port is idempotent: the first call on an open handle hands
\* the descriptor to close() once and clears the handle; a call on a cleared
\* handle makes no OS call, raises no error and changes nothing of the port;
\* over any sequence of calls close() runs at most once.
C18_CloseOnce ==
  /\ [](Cardinality({i \in 1..Len(os) : os[i].op = "close"}) <= 1)
  /\ [][(fn' = "close_port" /\ calls' = calls + 1) =>
          /\ ptrPort' = 0
          /\ ptrPort /= 0 => os' = Append(os, OsCall("close", ptrPort, 0))
          /\ ptrPort = 0 =>
               /\ os' = os
               /\ pc' = "idle"
               /\ err' = err
               /\ UNCHANGED <<termios, inbuf, modem>>]_vars

C18_Witness ==
  /\ fn = "close_port"
  /\ hist.fn = "close_port"
  /\ hist.ptrPort = 0
  /\ pc = "idle"
  /\ ptrPort = 0
  /\ Len(os) = 1
  /\ os[1].op = "close"
  /\ os[1].fd = 3
  /\ os[1].call = 1

\* the attribute records the round trip is stated for
RoundTripAttrs ==
  {a \in Attrs : /\ a.baudrate \in Bauds
                 /\ a.numBits \in {7, 8}
                 /\ a.parity \in {0, 1, 2}
                 /\ a.numStop \in {1, 2, 3}
                 /\ a.RTS \in {0, 1}
                 /\ a.DTR \in {0, 1}}

\* C19: for a baudrate of 4800, 9600, 19200, 38400, 57600 or 115200, any
\* timeout, 7 or 8 data bits, parity none, odd or even, 1, 1.5 or 2 stop
\* bits and RTS and DTR 0 or 1, get_port_attribute right after
\* set_port_attribute(h, a) on an open port returns a in every field.
C19_AttrRoundTrip ==
  (/\ fn = "get_port_attribute"
   /\ pc = "idle"
   /\ hist.fn = "set_port_attribute"
   /\ hist.ptrPort /= 0
   /\ hist.attr \in RoundTripAttrs) => ret = hist.attr

\* the time the selects of the last call waited, in ms
RECURSIVE Waited(_)
Waited(i) ==
  IF i = 0 THEN 0
  ELSE Waited(i - 1)
       + (IF os[i].call = calls /\ os[i].op = "select" THEN os[i].t ELSE 0)

\* C20: with a timeout T > 0 receive_port returns no later than T after it
\* was called, however the bytes are spaced: the waits of one call add up to
\* at most T.
C20_TotalTimeout ==
  (/\ fn = "receive_port"
   /\ pc = "idle"
   /\ hist.ptrPort /= 0
   /\ timeout0 > 0) => Waited(Len(os)) <= timeout0

\* C21: with a read timeout above 0 receive_port(h, n) returns, whatever
\* the line and the OS calls do; the count it returns is at most n and is
\* the number of bytes it stored; the count is below n only when a wait
\* ended without data.
C21_ReceiveTerminates ==
  /\ []((fn = "receive_port" /\ pc = "idle" /\ timeout0 > 0) =>
          /\ ret <= lenRx
          /\ ret = Len(Rx)
          /\ ret < lenRx => phase = "timeout")
  /\ (fn = "receive_port" /\ pc = "select" /\ timeout0 > 0) ~> (pc = "idle")

\* C22: with the read timeout 0 receive_port(h, n) does not wait: no select
\* waits, the count is min(n, b) for the b bytes that were in the port's
\* input buffer when it was called (0 for b = 0), and these are the bytes
\* it takes: the buffer keeps the others in front of what arrives later.
C22_PollOnly ==
  (/\ fn = "receive_port"
   /\ pc = "idle"
   /\ hist.ptrPort /= 0
   /\ timeout0 = 0) =>
     /\ ret = Min(loc.n, Len(hist.inbuf))
     /\ Len(inbuf) >= Len(hist.inbuf) - ret
     /\ SubSeq(inbuf, 1, Len(hist.inbuf) - ret) = SubSeq(hist.inbuf, ret + 1, Len(hist.inbuf))
     /\ \A i \in OwnOs : os[i].t = 0

C22_Witness ==
  /\ fn = "receive_port"
  /\ pc = "idle"
  /\ timeout0 = 0
  /\ loc.n = 2
  /\ Len(hist.inbuf) = 1
  /\ ret = 1
  /\ inbuf = <<>>
  /\ \E i \in OwnOs : os[i].op = "select"

\* the settings are raw, without flow control, with the receiver on
RawMode(tio) ==
  /\ tio.c_lflag \cap (ICANON \cup ECHO \cup ISIG) = {}
  /\ tio.c_oflag \cap OPOST = {}
  /\ tio.c_iflag \cap (IXON \cup IXOFF \cup IXANY) = {}
  /\ tio.c_cflag \cap CRTSCTS = {}
  /\ CREAD \cup CLOCAL \subseteq tio.c_cflag

\* C23: after init_port and after any sequence of set_port_attribute,
\* set_baudrate and set_timeout calls the port's settings have ICANON, ECHO,
\* ISIG, OPOST, IXON, IXOFF, IXANY and CRTSCTS clear and CREAD and CLOCAL set.
C23_RawMode ==
  (ptrPort /= 0 /\ pc = "idle") => RawMode(termios)

C23_Witness ==
  /\ fn = "set_baudrate"
  /\ hist.fn = "set_port_attribute"
  /\ pc = "idle"
  /\ ptrPort = 3
  /\ "IEXTEN" \in termios.c_lflag
  /\ termios.speed = "B4800"
  /\ RawMode(termios)

\* C28: get_port_attribute on an open port reports numStop = 1 exactly when
\* CSTOPB is clear in the port's settings and 2 exactly when it is set, and
\* RTS (DTR) = 1 exactly when the RTS (DTR) line is set and 0 exactly when
\* it is clear.
C28_StopAndModem ==
  (fn = "get_port_attribute" /\ pc = "idle" /\ hist.ptrPort /= 0) =>
    /\ ret.numStop = (IF termios.c_cflag \cap CSTOPB = {} THEN 1 ELSE 2)
    /\ ret.RTS = (IF modem \cap TIOCM_RTS = {} THEN 0 ELSE 1)
    /\ ret.DTR = (IF modem \cap TIOCM_DTR = {} THEN 0 ELSE 1)

\* C29: after init_port or set_port_attribute with numBits = 7 the CSIZE
\* field of the port's settings is CS7, and with numBits = 8 it is CS8,
\* whatever it was before.
C29_CharSize ==
  (/\ fn \in {"init_port", "set_port_attribute"}
   /\ pc = "idle"
   /\ ptrPort /= 0
   /\ loc.attr.numBits \in {7, 8}) =>
     termios.c_cflag \cap CSIZE = (IF loc.attr.numBits = 7 THEN CS7 ELSE CS8)

\* receive i of bsl_sync obtained one byte that is neither ACK nor NACK
WrongByte(i) ==
  /\ wire[i].d = "rx"
  /\ Len(wire[i].b) = 1
  /\ wire[i].b[1] \notin {ACK, NACK}

\* C24 as stated: whenever bsl_sync receives a single byte that is neither
\* ACK nor NACK the call ends there in the "wrong response" error
\* (SyncFailed), and the value reported is that byte.
C24_WrongByteEnds ==
  fn = "bsl_sync" =>
    \A i \in 1..Len(wire) :
      WrongByte(i) =>
        /\ i = Len(wire)
        /\ pc = "exit"
        /\ err.msg = "wrong response"
        /\ ToByte(err.val) = wire[i].b[1]

\* C24 as the code has it: a single byte that is neither ACK nor NACK ends
\* bsl_sync in the "wrong response" error, with the byte (as the signed char
\* Rx[0]) reported, when it is received in round 15; received in an earlier
\* round it makes bsl_sync send SYNCH again, and the call does not end with
\* that round.
C24_WrongByteLast ==
  fn = "bsl_sync" =>
    \A i \in 1..Len(wire) :
      WrongByte(i) =>
        IF i = 30
        THEN /\ Len(wire) = 30
             /\ pc = "exit"
             /\ err.msg = "wrong response"
             /\ err.val = ToChar(wire[i].b[1])
        ELSE IF i = Len(wire)
        THEN pc = "send" /\ Tx = <<ToChar(SYNCH)>>
        ELSE wire[i + 1] = [d |-> "tx", n |-> 1, b |-> wire[i + 1].b]

C24_Witness ==
  /\ fn = "bsl_sync"
  /\ SilentRounds(14)
  /\ RoundGot(15, 249)
  /\ pc = "exit"
  /\ err.msg = "wrong response"
  /\ err.val = 0 - 7

\* C25: in bsl_getInfo every check of a density is sent and awaited with
\* the port's read timeout at 100 ms, and the GET command is sent and its
\* reply awaited with the timeout at 1000 ms or more; after a successful
\* bsl_getInfo the timeout the next operation finds is 1000 ms or more.
C25_ProbeTimeout ==
  /\ (fn = "bsl_memCheck" /\ loc.caller = "bsl_getInfo" /\ pc \in {"send", "recv"}) =>
       PortTimeout(termios) = 100
  /\ (fn = "bsl_getInfo" /\ phase = "get" /\ pc \in {"send", "recv"}) =>
       PortTimeout(termios) >= 1000
  /\ (fn = "bsl_getInfo" /\ pc = "done") => PortTimeout(termios) >= 1000

C25_Witness ==
  /\ fn = "bsl_getInfo"
  /\ phase = "get"
  /\ pc = "recv"
  /\ timeout0 = 2000
  /\ PortTimeout(termios) = 1000
  /\ Len(probes) = 4
  /\ Len(wire) = 19

\* C26: the frame bsl_memWrite builds for a chunk p of 1..128 bytes has
\* len(p)+2 bytes: len(p)-1, the bytes of p, and as last byte the 8-bit XOR
\* of len(p)-1 and all bytes of p, bytes 0x80..0xFF included.
C26_WriteChecksum ==
  (fn = "bsl_memWrite" /\ phase = "data") =>
    LET n == U32Nat(loc.addrStep)
        p == [i \in 1..n |-> buf[loc.idx - n + i] % 256]
    IN /\ n \in 1..128
       /\ Len(Tx) = n + 2
       /\ Tx[1] % 256 = n - 1
       /\ \A i \in 1..n : Tx[i + 1] % 256 = p[i]
       /\ \A w \in {1, 2, 4, 8, 16, 32, 64, 128} :
            ((Tx[n + 2] % 256) \div w) % 2 =
              (((n - 1) \div w) + Cardinality({i \in 1..n : (p[i] \div w) % 2 = 1})) % 2

C26_Witness ==
  /\ fn = "bsl_memWrite"
  /\ phase = "data"
  /\ pc = "recv"
  /\ Len(Tx) = 130
  /\ Tx[1] = 127
  /\ Tx[6] = 0 - 100
  /\ Cardinality({i \in 2..129 : Tx[i] < 0}) >= 32
  /\ wire[Len(wire)].b[130] = Tx[130] % 256

(***************************************************************************)
(* bsl_sync on a line whose replies may come late, followed by another     *)
(* function.                                                               *)
(***************************************************************************)
\* a round of bsl_sync whose reply arrives after the wait of receive_port
\* has expired: the call takes what the input buffer holds, and the reply
\* is in the buffer afterwards
bsl_sync_late ==
  /\ pc = "recv"
  /\ fn = "bsl_sync"
  /\ line = "arbitrary"
  /\ LET h == TargetStep(tgt, mem, LastTx)
         a == [reply |-> <<>>, tgt |-> h.tgt, mem |-> h.mem, noise |-> noise]
         r == [receive_port(lenRx, Rx, a.reply) EXCEPT !.inbuf = @ \o h.reply]
         count == loc.count + 1
     IN /\ h.reply /= <<>>
        /\ Receive(a, r)
        /\ Rx' = r.Rx
        /\ loc' = [loc EXCEPT !.count = count]
        /\ IF bsl_sync_again(count, r.len, r.Rx) THEN Goto("send")
           ELSE IF r.len = lenRx /\ RxAt(r.Rx, 0) = ACK THEN Return(0)
           ELSE IF r.len = lenRx /\ RxAt(r.Rx, 0) = NACK THEN Return(0)
           ELSE IF r.len = lenRx THEN Exit("wrong response", RxAt(r.Rx, 0))
           ELSE Exit("no response", 0)
  /\ UNCHANGED <<fn, phase, Tx, lenRx, callerVars, termios, probes>>

NextLate ==
  \/ bsl_sync_call
  \/ bsl_sync_send
  \/ bsl_sync_recv
  \/ bsl_sync_late
  \/ caller_next
  \/ bsl_jumpTo_call
  \/ bsl_jumpTo_send
  \/ bsl_jumpTo_recv

SpecLate == InitPort /\ [][NextLate]_vars

(***************************************************************************)
(* bsl_getInfo among calls of set_timeout and set_baudrate.                *)
(***************************************************************************)
NextFrame ==
  \/ set_timeout_call
  \/ set_baudrate_call
  \/ bsl_getInfo_call
  \/ bsl_memCheck_send
  \/ bsl_memCheck_recv
  \/ bsl_getInfo_send
  \/ bsl_getInfo_recv
  \/ caller_next

InitFrame ==
  /\ Init
  /\ ptrPort /= 0
  /\ tgt.flash = 8

SpecFrame == InitFrame /\ [][NextFrame]_vars

(***************************************************************************)
(* send_port and receive_port in the two builds of the transport.          *)
(***************************************************************************)
\* the build is the one whose OS calls have been made
Win32Ops == {"PurgeComm", "WriteFile", "ReadFile"}
WIN32 == \A i \in 1..Len(os) : os[i].op \in Win32Ops
unix == \A i \in 1..Len(os) : os[i].op \notin Win32Ops

\* the input buffer after PurgeComm(fpCom, PURGE_RXABORT | PURGE_RXCLEAR | ..)
PurgeComm == <<>>

\* ReadFile on a port with ReadTotalTimeoutConstant `total`: the bytes that
\* are there or arrive before the total has passed, n at most
RECURSIVE ReadFile(_, _, _)
ReadFile(total, n, sched) ==
  IF n = 0 \/ sched = <<>> THEN <<>>
  ELSE IF Head(sched).gap > total THEN <<>>
  ELSE <<Head(sched).b>> \o ReadFile(total - Head(sched).gap, n - 1, Tail(sched))

send_port_WIN32 ==
  /\ WIN32
  /\ PortEnter("send_port")
  /\ \E T \in PortFrames :
       PortDone(Len(T), [NoLoc EXCEPT !.n = Len(T)],
                <<OsCall("PurgeComm", ptrPort, 0), OsCall("WriteFile", ptrPort, 0)>>)
  /\ inbuf' = PurgeComm
  /\ UNCHANGED <<ptrPort, termios, modem>>

receive_port_WIN32 ==
  /\ WIN32
  /\ PortEnter("receive_port")
  /\ \E n \in 1..MaxSched : \E sched \in Scheds :
       LET stream == [i \in 1..Len(inbuf) |-> [gap |-> 0, b |-> inbuf[i]]] \o sched
           got == ReadFile(PortTimeout(termios), n, stream)
           taken == Min(Len(got), Len(inbuf))
       IN /\ PortDone(Len(got), [NoLoc EXCEPT !.n = n],
                      <<OsCall("ReadFile", ptrPort, 0)>>)
          /\ inbuf' = SubSeq(inbuf, taken + 1, Len(inbuf))
  /\ UNCHANGED <<ptrPort, termios, modem>>

send_port_unix ==
  /\ unix
  /\ send_port_call

receive_port_unix ==
  /\ unix
  /\ receive_port_call

NextBuild ==
  \/ line_arrive
  \/ send_port_WIN32
  \/ receive_port_WIN32
  \/ send_port_unix
  \/ receive_port_unix

SpecBuild == InitWait /\ [][NextBuild]_vars

(***************************************************************************)
(* The address frame as a function of the address: the four places that    *)
(* build it, applied to addresses of the whole 32-bit range.               *)
(***************************************************************************)
\* halves of the addresses: 0000, 0004, 007F, 0080, 00FF, 8000, ABCD, FFFF
AddrHalves == {0, 4, 127, 128, 255, 32768, 43981, 65535}
Addrs32 == {[h |-> x, l |-> y] : x \in AddrHalves, y \in AddrHalves}

\* a function that has had its command acknowledged builds the address frame
addr_frame(T) ==
  /\ pc = "idle"
  /\ fn = ""
  /\ ptrPort /= 0
  /\ phase' = "addr"
  /\ Tx' = T
  /\ lenRx' = 1
  /\ pc' = "send"
  /\ UNCHANGED <<loc, Rx, ret, err, buf, flashsize, vers, portVars, envVars,
                 histVars, osVars>>

bsl_memRead_addr ==
  /\ fn' = "bsl_memRead"
  /\ addr_frame(memRead_addr(loc.addrTmp))

bsl_memCheck_addr ==
  /\ fn' = "bsl_memCheck"
  /\ addr_frame(memCheck_addr(loc.addr))

bsl_memWrite_addr ==
  /\ fn' = "bsl_memWrite"
  /\ addr_frame(memWrite_addr(loc.addrTmp))

bsl_jumpTo_addr ==
  /\ fn' = "bsl_jumpTo"
  /\ addr_frame(jumpTo_addr(loc.addr))


NextAddr ==
  \/ bsl_memRead_addr
  \/ bsl_memCheck_addr
  \/ bsl_memWrite_addr
  \/ bsl_jumpTo_addr

InitAddr ==
  /\ pc = "idle"
  /\ fn = ""
  /\ phase = ""
  /\ \E a \in Addrs32 : loc = [NoLoc EXCEPT !.addr = a, !.addrTmp = a, !.addrStart = a]
  /\ Tx = <<>>
  /\ lenRx = 0
  /\ Rx = <<>>
  /\ ret = 0
  /\ err = NoErr
  /\ buf = <<>>
  /\ flashsize = NotWritten
  /\ vers = NotWritten
  /\ ptrPort = 3
  /\ inbuf = <<>>
  /\ tgt = [st |-> "idle", cmd |-> 0, addr |-> 0, synced |-> TRUE,
            flash |-> 8, ver |-> 0]
  /\ mem = <<>>
  /\ noise = 0
  /\ line \in {"arbitrary", "faithful"}
  /\ wire = <<>>
  /\ probes = <<>>
  /\ timeout0 = 0
  /\ mem0 = <<>>
  /\ hist = NoHist
  /\ calls = 0
  /\ modem = {}
  /\ os = <<>>
  /\ \E t \in InitTimeouts : termios = set_timeout(InitTermios, t)

SpecAddr == InitAddr /\ [][NextAddr]_vars

\* the address a function has in hand when it builds its address frame
AddrInHand == IF fn \in {"bsl_memRead", "bsl_memWrite"} THEN loc.addrTmp ELSE loc.addr

\* the five bytes of the address frame of a 32-bit address: the four bytes
\* of the address, most significant first, and their XOR
AddrBytes(a) ==
  LET f == <<a.h \div 256, a.h % 256, a.l \div 256, a.l % 256>>
      x == [k \in 0..7 |->
             Cardinality({i \in 1..4 : (f[i] \div (2 ^ k)) % 2 = 1}) % 2]
  IN f \o <<x[0] + 2 * x[1] + 4 * x[2] + 8 * x[3]
            + 16 * x[4] + 32 * x[5] + 64 * x[6] + 128 * x[7]>>

\* C27: the address frame built in bsl_memRead, bsl_memCheck, bsl_memWrite
\* and bsl_jumpTo for a 32-bit address a is [a>>24, a>>16, a>>8, a, XOR of
\* the four], most significant byte first, and the four functions build
\* the same frame for the same address.
C27_AddrFrames ==
  (fn \in {"bsl_memRead", "bsl_memCheck", "bsl_memWrite", "bsl_jumpTo"} /\ phase = "addr") =>
    /\ Len(Tx) = 5
    /\ Bytes(Tx) = AddrBytes(AddrInHand)
    /\ \A f \in {memRead_addr(AddrInHand), memCheck_addr(AddrInHand),
                 memWrite_addr(AddrInHand), jumpTo_addr(AddrInHand)} : f = Tx

C27_Witness ==
  /\ fn = "bsl_memWrite"
  /\ phase = "addr"
  /\ loc.addrTmp = [h |-> 43981, l |-> 32768]
  /\ Tx = <<0 - 85, 0 - 51, 0 - 128, 0, 0 - 26>>
  /\ Bytes(Tx) = <<171, 205, 128, 0, 230>>

\* C30: when bsl_sync returns success, no reply to a SYNCH byte it sent is
\* left unread in the input buffer of the port, so that the function called
\* next does not find a reply to a SYNCH byte where it waits for the
\* acknowledge of its own command.
C30_NoLeftover ==
  LET SyncReply(b) == \E i \in 1..Len(b) : b[i] \in {ACK, NACK} IN
  /\ (fn = "bsl_sync" /\ pc \in {"done", "idle"} /\ ret = 0) => ~SyncReply(inbuf)
  /\ (fn = "bsl_jumpTo" /\ hist.fn = "bsl_sync" /\ hist.ret = 0 /\ Len(wire) <= 1) =>
       ~SyncReply(inbuf)

C32_NonZeroWait ==
  (/\ fn = "receive_port"
   /\ pc = "idle"
   /\ hist.fn \in {"set_timeout", "set_port_attribute"}
   /\ hist.ptrPort /= 0
   /\ hist.attr.timeout > 0) =>
     /\ timeout0 > 0
     /\ timeout0 <= hist.attr.timeout

\* C33: set_port_attribute(h, args) leaves the port with the line
\* configuration init_port produces for the same arguments (init_port would
\* change nothing any more, in the settings or on the modem lines); a
\* parity of odd or even is applied.
C33_SameAsInit ==
  (fn = "set_port_attribute" /\ pc = "idle" /\ hist.ptrPort /= 0) =>
    /\ termios = init_port(termios, loc.attr)
    /\ modem = set_modem(modem, loc.attr.RTS, loc.attr.DTR)
    /\ loc.attr.parity \in {1, 2} => PARENB \subseteq termios.c_cflag
    /\ loc.attr.parity = 1 => PARODD \subseteq termios.c_cflag

\* C34: set_timeout changes only the read timeout (VMIN, VTIME) and
\* set_baudrate only the baud rate; the other settings and the RTS/DTR
\* lines are as before the call. No step of bsl_getInfo changes anything
\* but the read timeout.
C34_OnlyOne ==
  [][/\ (fn' = "set_timeout" /\ calls' /= calls) =>
          /\ termios' = [termios EXCEPT !.VMIN = termios'.VMIN, !.VTIME = termios'.VTIME]
          /\ modem' = modem
     /\ (fn' = "set_baudrate" /\ calls' /= calls) =>
          /\ termios' = [termios EXCEPT !.speed = termios'.speed]
          /\ modem' = modem
     /\ (fn' \in {"bsl_getInfo", "bsl_memCheck"}) =>
          /\ termios' = [termios EXCEPT !.VTIME = termios'.VTIME]
          /\ modem' = modem]_vars

C34_Witness ==
  /\ fn = "set_baudrate"
  /\ pc = "idle"
  /\ hist.fn = "bsl_getInfo"
  /\ hist.ret = 0
  /\ loc.attr.baudrate = 9600
  /\ termios = [InitTermios EXCEPT !.speed = "B9600", !.VTIME = 10]

\* C35: send_port leaves the bytes that wait in the input buffer of the
\* port where they are, in the Win32 build as in the POSIX build, so that a
\* byte that arrived before a send is there for the next receive_port.
C35_SendKeepsInput ==
  [][(fn' = "send_port" /\ calls' /= calls) => inbuf' = inbuf]_vars

====
